---- MODULE Spec2Model ----
(***************************************************************************)
(* A model of the clcache cache engine (src/clcache.py): the two-tier      *)
(* store (manifests + compiler artifacts), the named cross-process locks,  *)
(* the statistics, the eviction pass and the direct-mode request flow.     *)
(*                                                                         *)
(* Abstractions.  A hash is the value it is computed from (hashes are      *)
(* injective).  Every source file includes one header; the header content  *)
(* a request sees is its input `ver`.  Access times are kept as a sequence *)
(* of file names, least recently accessed first.  Directory listings are   *)
(* in ascending name order (NTFS).  Sizes are in bytes.                    *)
(***************************************************************************)
EXTENDS Integers, Sequences, FiniteSets, TLC

\* ------------------------------------------------------------------ bounds
MaxOps == 3            \* operations started in one behaviour of Spec
MaxSeqOps == 4         \* operations started in one behaviour of SpecSeq
MaxVariants == 101     \* header variants compiled in one behaviour of SpecGrow
ObjectBytes == 6       \* size of every object file
ManifestEntryBytes == 1 \* bytes one entry adds to a manifest file
SmallCacheSize == 12   \* a small MaximumCacheSize a user may configure
MaxHeaderOps == 4      \* requests started in one behaviour of SpecHeaders
MaxHeaders == 3        \* header contents that alternate in SpecHeaders
MaxCallOps == 4        \* operations started in one behaviour of SpecCalls
MaxChildren == 3       \* source files of one multi-source command line
MaxJobCount == 2       \* the largest N of a /MPN switch
CpuCount == 2          \* multiprocessing.cpu_count() of the machine
MaxTokens == 3         \* tokens of a command line given to analyze
MaxContent == 5        \* characters of a string given to the tokenizer
MaxFileEntries == 2    \* entries of a manifest written to a manifest file
MaxIncludes == 3       \* paths of an include list given to createManifestEntry
MaxBuilds == 3         \* builds of the source tree in one behaviour of SpecBasedir
MaxNoDirectOps == 3
MaxFanoutTokens == 4   \* tokens of a command line given to the fan-out
MaxLevel == 2          \* levels of self re-invocation that are followed
MaxNormTokens == 3     \* flags of a command line given to the normalization
MaxKillOps == 3        \* operations started in one behaviour of SpecKill
MaxLockOps == 3        \* operations started in one behaviour of SpecLocks    \* requests started in one behaviour of SpecNoDirect

\* ------------------------------------------------------- program constants
MAX_MANIFEST_HASHES == 100
DefaultMaximumCacheSize == 1073741824

Procs == {"p1", "p2"}
Src == {"s1", "s2"}
Requests == {<<"s1", 1>>, <<"s1", 2>>, <<"s2", 1>>}
Shards == {1, 2}

NoProc == "none"
NoKey == <<"none", 0>>
NoObject == <<"none", 0>>
StatsLock == <<"S", 0>>
Locks == ({"M", "A"} \X Shards) \cup {StatsLock}

\* --------------------------------------------------------- pure functions
\* getManifestHash: the compiler, the command line and the format version
\* are fixed, so the manifest hash is a function of the source file alone.
getManifestHash(s) == s

\* getIncludesContentHashForFiles: hash of the (single) header's content.
getIncludesContentHashForFiles(v) == v

\* computeKeyDirect: getStringHash(manifestHash + includesContentHash).
computeKeyDirect(manifestHash, includesContentHash) ==
    <<manifestHash, includesContentHash>>

\* ManifestRepository.section: the shard a manifest hash falls into (the
\* first two hex digits of the hash).
ManifestShard(h) == IF h = "s1" THEN 1 ELSE 2

\* CompilerArtifactsRepository.section: the shard of an artifact key.
ArtifactShard(k) == IF k[2] % 2 = 1 THEN 1 ELSE 2

ManifestLock(h) == <<"M", ManifestShard(h)>>
ArtifactLock(k) == <<"A", ArtifactShard(k)>>

\* createManifestEntry
createManifestEntry(manifestHash, v) ==
    LET includesContentHash == getIncludesContentHashForFiles(v)
    IN [includesContentHash |-> includesContentHash,
        objectHash |-> computeKeyDirect(manifestHash, includesContentHash)]

\* Manifest.addEntry: insert at the top.
addEntry(entries, entry) == <<entry>> \o entries

\* a touch that leaves the entry where it is
touchEntry_InPlace(entries, entryIndex) == entries

\* a touch that keeps the touched entry alone
touchEntry_DropOthers(entries, entryIndex) == <<entries[entryIndex]>>

\* Manifest.touchEntry: move the entry at entryIndex to the top.
touchEntry(entries, entryIndex) ==
    <<entries[entryIndex]>> \o SubSeq(entries, 1, entryIndex - 1)
                            \o SubSeq(entries, entryIndex + 1, Len(entries))

\* The real compiler: exit code and object code for a source and the header
\* content it sees.  Header variant 0 does not compile.
CompilerExitCode(s, v) == IF v <= 0 THEN 2 ELSE 0

\* The preprocessor run of the real compiler (/EP): with header variant -1
\* the header is missing and the preprocessor fails.
PreprocessorExitCode(s, v) == IF v < 0 THEN 2 ELSE 0

\* computeKeyNodirect: the hash of the compiler, the normalized command line
\* and the preprocessed source; no direct-mode key has this value
computeKeyNodirect(s, v) == <<s, 0 - v>>
ObjectCode(s, v) == <<s, v>>

\* size of a manifest file with the given entries
ManifestFileSize(entries) == Len(entries) * ManifestEntryBytes

\* n < (pct/100) * max and n <= (pct/100) * max, without overflowing 32 bits.
\* The code compares against the floats max*0.9*0.1 and max*0.9 - max*0.9*0.1;
\* none of the sizes used here is a multiple of 100 except 0, so the float
\* and the exact comparison agree.
BelowShare(n, pct, max) ==
    LET q == max \div 100
        r == max % 100
    IN IF n < pct * q THEN TRUE ELSE (n - pct * q) * 100 < pct * r

WithinShare(n, pct, max) ==
    LET q == max \div 100
        r == max % 100
    IN IF n < pct * q THEN TRUE ELSE (n - pct * q) * 100 <= pct * r

RECURSIVE SortedSeq(_)
\* childDirectories: the listing of a directory, ascending.
SortedSeq(S) ==
    IF S = {} THEN <<>>
    ELSE LET m == CHOOSE x \in S : \A y \in S : x <= y
         IN <<m>> \o SortedSeq(S \ {m})

RemoveFromSeq(seq, x) == SelectSeq(seq, LAMBDA y : y # x)

\* a file was read or written: it becomes the most recently accessed
Touch(seq, x) == Append(RemoveFromSeq(seq, x), x)

RECURSIVE SumSizes(_, _)
SumSizes(f, seq) ==
    IF seq = <<>> THEN 0 ELSE f[Head(seq)].size + SumSizes(f, Tail(seq))

Restrict(f, S) == [x \in S |-> f[x]]

SeqToSet(seq) == {seq[i] : i \in 1..Len(seq)}

Reverse(seq) == [i \in 1..Len(seq) |-> seq[Len(seq) + 1 - i]]

\* ------------------------------------------------------------- statistics
RESETTABLE_KEYS ==
    {"CallsWithInvalidArgument", "CallsWithoutSourceFile",
     "CallsWithMultipleSourceFiles", "CallsWithPch", "CallsForLinking",
     "CallsForExternalDebugInfo", "CallsForPreprocessing",
     "CacheHits", "CacheMisses", "EvictedMisses", "HeaderChangedMisses",
     "SourceChangedMisses"}

NON_RESETTABLE_KEYS == {"CacheEntries", "CacheSize"}

\* Statistics.__enter__ on a cache without stats.txt: every key is 0
ZeroStats ==
    [CallsWithInvalidArgument |-> 0, CallsWithoutSourceFile |-> 0,
     CallsWithMultipleSourceFiles |-> 0, CallsWithPch |-> 0,
     CallsForLinking |-> 0, CallsForExternalDebugInfo |-> 0,
     CallsForPreprocessing |-> 0,
     CacheHits |-> 0, CacheMisses |-> 0, EvictedMisses |-> 0,
     HeaderChangedMisses |-> 0, SourceChangedMisses |-> 0,
     CacheEntries |-> 0, CacheSize |-> 0]

registerCallWithInvalidArgument(st) ==
    [st EXCEPT !.CallsWithInvalidArgument = @ + 1]

registerCallWithoutSourceFile(st) ==
    [st EXCEPT !.CallsWithoutSourceFile = @ + 1]

registerCallWithMultipleSourceFiles(st) ==
    [st EXCEPT !.CallsWithMultipleSourceFiles = @ + 1]

registerCallWithPch(st) == [st EXCEPT !.CallsWithPch = @ + 1]

registerCallForLinking(st) == [st EXCEPT !.CallsForLinking = @ + 1]

registerCallForExternalDebugInfo(st) ==
    [st EXCEPT !.CallsForExternalDebugInfo = @ + 1]

registerCallForPreprocessing(st) ==
    [st EXCEPT !.CallsForPreprocessing = @ + 1]

registerCacheHit(st) == [st EXCEPT !.CacheHits = @ + 1]

registerCacheMiss(st) == [st EXCEPT !.CacheMisses = @ + 1]

registerEvictedMiss(st) ==
    [registerCacheMiss(st) EXCEPT !.EvictedMisses = @ + 1]

\* a registration that counts the subclass without the miss
registerHeaderChangedMiss_SubclassOnly(st) ==
    [st EXCEPT !.HeaderChangedMisses = @ + 1]

registerHeaderChangedMiss(st) ==
    [registerCacheMiss(st) EXCEPT !.HeaderChangedMisses = @ + 1]

registerSourceChangedMiss(st) ==
    [registerCacheMiss(st) EXCEPT !.SourceChangedMisses = @ + 1]

registerCacheEntry(st, size) ==
    [st EXCEPT !.CacheEntries = @ + 1, !.CacheSize = @ + size]

\* a reset that zeroes every key
resetCounters_EveryKey(st) == ZeroStats

\* Statistics.resetCounters: the RESETTABLE_KEYS are set to 0
resetCounters(st) ==
    [ZeroStats EXCEPT !.CacheEntries = st.CacheEntries,
                      !.CacheSize = st.CacheSize]

\* the variants of AnalysisError
AnalysisErrors ==
    {"InvalidArgumentError", "NoSourceFileError",
     "MultipleSourceFilesComplexError", "CalledWithPchError",
     "CalledForLinkError", "ExternalDebugInfoError",
     "CalledForPreprocessingError"}

\* a handler that counts every rejected command line as an invalid argument
updateCacheStatistics_AlwaysInvalid(st, error) ==
    registerCallWithInvalidArgument(st)

\* processCompileRequest: the except clauses, each with its
\* updateCacheStatistics(cache, Statistics.registerCall...)
updateCacheStatistics(st, error) ==
    CASE error = "InvalidArgumentError" -> registerCallWithInvalidArgument(st)
      [] error = "NoSourceFileError" -> registerCallWithoutSourceFile(st)
      [] error = "MultipleSourceFilesComplexError" ->
             registerCallWithMultipleSourceFiles(st)
      [] error = "CalledWithPchError" -> registerCallWithPch(st)
      [] error = "CalledForLinkError" -> registerCallForLinking(st)
      [] error = "ExternalDebugInfoError" -> registerCallForExternalDebugInfo(st)
      [] error = "CalledForPreprocessingError" ->
             registerCallForPreprocessing(st)
      [] OTHER -> st

\* reason(stats): the miss registration processDirect hands on
ApplyReason(st, reason) ==
    IF reason = "HeaderChangedMiss" THEN registerHeaderChangedMiss(st)
    ELSE IF reason = "SourceChangedMiss" THEN registerSourceChangedMiss(st)
    ELSE IF reason = "CacheMiss" THEN registerCacheMiss(st)
    ELSE st

\* --------------------------------------------------------------- eviction
RECURSIVE ManifestCleanLoop(_, _, _, _, _)
\* the loop of ManifestRepository.clean over the files, newest first: a file
\* is kept while it fits the budget of pct percent of maxSize, else removed
ManifestCleanLoop(mfs, infos, remainingObjectsSize, pct, maxSize) ==
    IF infos = <<>> THEN [kept |-> {}, size |-> remainingObjectsSize]
    ELSE LET h == Head(infos)
             sz == ManifestFileSize(mfs[h])
         IN IF WithinShare(remainingObjectsSize + sz, pct, maxSize)
            THEN LET rest == ManifestCleanLoop(mfs, Tail(infos),
                                 remainingObjectsSize + sz, pct, maxSize)
                 IN [kept |-> rest.kept \cup {h}, size |-> rest.size]
            ELSE ManifestCleanLoop(mfs, Tail(infos), remainingObjectsSize,
                                   pct, maxSize)

\* ManifestRepository.clean: the files kept and their total size
ManifestRepository_clean(mfs, atimes, pct, maxSize) ==
    ManifestCleanLoop(mfs, Reverse(atimes), 0, pct, maxSize)

RECURSIVE ArtifactCleanLoop(_, _, _, _, _, _)
\* the loop of CompilerArtifactsRepository.clean over the entries, oldest
\* first: remove, then stop once the running total is below the budget
ArtifactCleanLoop(arts, infos, removedItems, currentSizeObjects, pct, maxSize) ==
    IF infos = <<>> THEN [removed |-> removedItems, size |-> currentSizeObjects]
    ELSE LET cur == currentSizeObjects - arts[Head(infos)].size
         IN IF BelowShare(cur, pct, maxSize)
            THEN [removed |-> removedItems + 1, size |-> cur]
            ELSE ArtifactCleanLoop(arts, Tail(infos), removedItems + 1, cur,
                                   pct, maxSize)

\* CompilerArtifactsRepository.clean: the entries kept (in access order),
\* their number and their total size
CompilerArtifactsRepository_clean(arts, atimes, pct, maxSize) ==
    LET r == ArtifactCleanLoop(arts, atimes, 0, SumSizes(arts, atimes),
                               pct, maxSize)
    IN [kept |-> SubSeq(atimes, r.removed + 1, Len(atimes)),
        count |-> Len(atimes) - r.removed,
        size |-> r.size]

\* the cache after an eviction pass that gives the manifests mpct percent and
\* the objects opct percent of maximumSize, storing the count in the
\* statistics when setEntries is set
CleanTo(st, maximumSize, mpct, opct, setEntries, mfs, mat, arts, oat) ==
    IF st.CacheSize < maximumSize
    THEN [stats |-> st, manifests |-> mfs, matime |-> mat,
          artifacts |-> arts, oatime |-> oat, ran |-> FALSE]
    ELSE LET m == ManifestRepository_clean(mfs, mat, mpct, maximumSize)
             a == CompilerArtifactsRepository_clean(arts, oat, opct, maximumSize)
         IN [stats |-> [st EXCEPT !.CacheSize = a.size + m.size,
                                  !.CacheEntries = IF setEntries THEN a.count
                                                   ELSE @],
             manifests |-> Restrict(mfs, m.kept),
             matime |-> SelectSeq(mat, LAMBDA h : h \in m.kept),
             artifacts |-> Restrict(arts, SeqToSet(a.kept)),
             oatime |-> a.kept,
             ran |-> TRUE]

\* a pass that does not store the new size
Cache_clean_StaleSize(st, maximumSize, mfs, mat, arts, oat) ==
    LET r == CleanTo(st, maximumSize, 9, 81, TRUE, mfs, mat, arts, oat)
    IN [r EXCEPT !.stats.CacheSize = st.CacheSize]

\* a pass that cleans the artifacts to maximumSize itself, without headroom
Cache_clean_NoHeadroom(st, maximumSize, mfs, mat, arts, oat) ==
    CleanTo(st, maximumSize, 9, 100, TRUE, mfs, mat, arts, oat)

\* a pass that does not store the new number of entries
Cache_clean_StaleEntries(st, maximumSize, mfs, mat, arts, oat) ==
    CleanTo(st, maximumSize, 9, 81, FALSE, mfs, mat, arts, oat)

\* Cache.clean(stats, maximumSize): nothing below maximumSize; otherwise the
\* manifests get 0.9 * 0.1 and the objects 0.9 * 0.9 of maximumSize
Cache_clean(st, maximumSize, mfs, mat, arts, oat) ==
    CleanTo(st, maximumSize, 9, 81, TRUE, mfs, mat, arts, oat)

\* ------------------------------------------------------------------ state
VARIABLES
    manifests,   \* manifest hash -> entries, for the manifest files on disk
    matime,      \* the manifest files, least recently accessed first
    artifacts,   \* key -> [object, size], for the entry directories on disk
    oatime,      \* the cached objects, least recently accessed first
    mdirs,       \* the manifest shard directories that exist
    adirs,       \* the artifact shard directories that exist
    stats,       \* stats.txt
    cfg,         \* config.txt: MaximumCacheSize
    objFile,     \* source -> the object file in the build directory
    lock,        \* named mutex -> the process that owns it
    proc,        \* process -> its position and local variables
    nops,        \* operations started so far
    last,        \* the request that finished last, if nothing started since
    batch,       \* the requests started since the cache was last quiescent
    jobs,        \* runJobs: the commands, the children and the return value
    parse,       \* CommandLineAnalyzer: the command line and the analysis
    tokenizer,   \* CommandLineTokenizer: the content and the fields
    mfile,       \* a manifest file and a statistics file, and what was read
    mentry,      \* createManifestEntry: the include paths and the entry
    build,       \* builds of one source tree at several locations
    spawn        \* a clcache process, its environment and the compiler it starts

vars == <<manifests, matime, artifacts, oatime, mdirs, adirs, stats, cfg,
          objFile, lock, proc, nops, last, batch, jobs, parse,
          tokenizer, mfile, mentry, build, spawn>>

\* the variables of the units that are modelled on their own
unitVars == <<tokenizer, mfile, mentry, build, spawn>>

\* the variables of the cache and of the processes that use it
cacheVars == <<manifests, matime, artifacts, oatime, mdirs, adirs, stats, cfg,
               objFile, lock, proc, nops, last, batch>>

\* no fan-out has started
NoJobs ==
    [pc |-> "idle", j |-> 0, commands |-> <<>>, running |-> <<>>,
     waiting |-> 0, status |-> <<>>, codes |-> <<>>, reaped |-> <<>>,
     result |-> 0]

\* CommandLineTokenizer before it is constructed
NoTokenizer ==
    [pc |-> "idle", content |-> <<>>, pos |-> 0, token |-> <<>>,
     argv |-> <<>>, parser |-> "initialState"]

\* no file has been written or read
NoFile ==
    [pc |-> "idle", file |-> "none", written |-> <<>>,
     content |-> [kind |-> "absent"], result |-> [error |-> "none"],
     previous |-> [kind |-> "absent"], new |-> [kind |-> "absent"],
     tmp |-> [kind |-> "absent"], seen |-> [kind |-> "absent"]]

\* createManifestEntry has not been called
NoEntry ==
    [pc |-> "idle", files |-> <<>>, baseDir |-> <<>>, includePaths |-> <<>>,
     made |-> <<>>]

\* no build of the source tree has been set up
NoBuild ==
    [pc |-> "idle", mode |-> "unset", option |-> "none", input |-> "rel",
     ext |-> <<>>, manifests |-> <<>>, artifacts |-> {}, hits |-> 0,
     misses |-> 0, log |-> <<>>]


\* no clcache process has been started
NoSpawn ==
    [pc |-> "idle", environ |-> <<>>, cmdLine |-> <<>>, environment |-> <<>>,
     merged |-> FALSE, level |-> 0, childArgs |-> <<>>, childEnv |-> <<>>]

\* no analysis has started
NoParse ==
    [pc |-> "idle", cmdline |-> <<>>, i |-> 0, arguments |-> <<>>,
     inputFiles |-> <<>>, outcome |-> "none", sourceFiles |-> <<>>,
     objectFile |-> <<>>, level |-> 0, normalized |-> <<>>]

NoLast == [valid |-> FALSE, src |-> "none", ver |-> 0, object |-> NoObject,
           hits |-> 0, cleanup |-> FALSE]

IdleProc ==
    [pc |-> "idle", op |-> "none", mode |-> "direct", src |-> "none",
     ver |-> 0, hasManifest |-> FALSE, mf |-> <<>>, idx |-> 0,
     cachekey |-> NoKey, matched |-> FALSE, reason |-> "none",
     rc |-> 0, invoked |-> FALSE, crashed |-> FALSE, cleanup |-> FALSE,
     task |-> "none", stage |-> 0, todo |-> <<>>, ran |-> FALSE,
     error |-> "none", forwarded |-> "none",
     prior |-> NoLast]

Active(p) == proc[p].pc # "idle"
Quiescent == \A p \in Procs : ~Active(p)

\* an existence test that never finds the entry directory
hasEntry_Never(k) == FALSE

\* CompilerArtifactsSection.hasEntry: the entry directory exists
hasEntry(k) == k \in DOMAIN artifacts

Acquire(lk, l, p) == [lk EXCEPT ![l] = p]
ReleaseAll(lk, p) == [l \in Locks |-> IF lk[l] = p THEN NoProc ELSE lk[l]]
Release(lk, l) == [lk EXCEPT ![l] = NoProc]

TypeOK ==
    /\ DOMAIN manifests \subseteq Src
    /\ SeqToSet(matime) = DOMAIN manifests
    /\ SeqToSet(oatime) = DOMAIN artifacts
    /\ mdirs \subseteq Shards /\ adirs \subseteq Shards
    /\ lock \in [Locks -> Procs \cup {NoProc}]
    /\ cfg \in Nat

\* the cache directory before the first operation: nothing stored; dirs are
\* the shard directories that exist (none in a new cache directory, some in
\* one that was used and cleared, since clean removes files and entries but
\* no shard directory)
InitDirs(sizes, dirs) ==
    /\ manifests = <<>>
    /\ matime = <<>>
    /\ artifacts = <<>>
    /\ oatime = <<>>
    /\ mdirs = dirs
    /\ adirs = dirs
    /\ stats = ZeroStats
    /\ cfg \in sizes
    /\ objFile = [s \in Src |-> NoObject]
    /\ lock = [l \in Locks |-> NoProc]
    /\ proc = [p \in Procs |-> IdleProc]
    /\ nops = 0
    /\ last = NoLast
    /\ batch = [n |-> 0, base |-> 0, srcs |-> {}, ok |-> TRUE]
    /\ jobs = NoJobs
    /\ parse = NoParse
    /\ tokenizer = NoTokenizer
    /\ mfile = NoFile
    /\ mentry = NoEntry
    /\ build = NoBuild
    /\ spawn = NoSpawn

InitWith(sizes) == InitDirs(sizes, {})

\* ------------------------------------------- bookkeeping of the observers
\* Starting an operation ends the observation "nothing happened since the
\* last request finished" for every other process.
StartedBy(p, rec) ==
    [q \in Procs |-> IF q = p THEN rec ELSE [proc[q] EXCEPT !.prior = NoLast]]

\* --------------------------------------------------------- compile request
\* processCompileRequest, single source, direct mode: the request for source
\* s, seeing header content v, enters processDirect.
StartRequest(p, s, v) ==
    /\ proc[p].pc = "idle"
    /\ proc' = StartedBy(p, [IdleProc EXCEPT
                  !.pc = "lockManifest", !.op = "compile", !.src = s, !.ver = v,
                  !.prior = IF last.valid /\ last.src = s /\ last.ver = v
                            THEN last ELSE NoLast])
    /\ nops' = nops + 1
    /\ last' = NoLast
    /\ batch' = IF Quiescent
                THEN [n |-> 1, base |-> stats.CacheHits + stats.CacheMisses,
                      srcs |-> {s}, ok |-> TRUE]
                ELSE [n |-> batch.n + 1, base |-> batch.base,
                      srcs |-> batch.srcs \cup {s},
                      ok |-> batch.ok /\ s \notin batch.srcs]
    /\ UNCHANGED <<manifests, matime, artifacts, oatime, mdirs, adirs, stats,
                   cfg, objFile, lock,
                   jobs, parse, unitVars>>

\* processDirect: "with manifestSection.lock", then getManifest
LockManifest(p) ==
    LET h == getManifestHash(proc[p].src)
        exists == h \in DOMAIN manifests
    IN /\ proc[p].pc = "lockManifest"
       /\ lock[ManifestLock(h)] = NoProc
       /\ lock' = Acquire(lock, ManifestLock(h), p)
       /\ proc' = [proc EXCEPT ![p].pc = "scan",
                               ![p].hasManifest = exists,
                               ![p].mf = IF exists THEN manifests[h] ELSE <<>>,
                               ![p].idx = 1]
       /\ matime' = IF exists THEN Touch(matime, h) ELSE matime
       /\ UNCHANGED <<manifests, artifacts, oatime, mdirs, adirs, stats, cfg,
                      objFile, nops, last, batch,
                   jobs, parse, unitVars>>

\* the indices, from idx on, of the entries whose includesContentHash equals
\* the hash of the current header content
Matching(p) ==
    {i \in proc[p].idx..Len(proc[p].mf) :
        proc[p].mf[i].includesContentHash =
            getIncludesContentHashForFiles(proc[p].ver)}

\* processDirect: the loop over manifest.entries() up to the next entry that
\* matches: touch it, write the manifest, go for the artifact section lock.
ScanMatch(p) ==
    /\ proc[p].pc = "scan"
    /\ proc[p].hasManifest
    /\ Matching(p) # {}
    /\ LET h == getManifestHash(proc[p].src)
           entryIndex == CHOOSE i \in Matching(p) : \A j \in Matching(p) : i <= j
           touched == touchEntry(proc[p].mf, entryIndex)
       IN /\ proc' = [proc EXCEPT ![p].pc = "lockArtifact",
                                  ![p].mf = touched,
                                  ![p].idx = entryIndex + 1,
                                  ![p].cachekey = proc[p].mf[entryIndex].objectHash,
                                  ![p].matched = TRUE]
          /\ manifests' = [x \in DOMAIN manifests \cup {h} |->
                              IF x = h THEN touched ELSE manifests[x]]
          /\ matime' = Touch(matime, h)
          /\ mdirs' = mdirs \cup {ManifestShard(h)}
    /\ UNCHANGED <<artifacts, oatime, adirs, stats, cfg, objFile, lock, nops,
                   last, batch,
                   jobs, parse, unitVars>>

\* processDirect: the loop ends without a hit, or there is no manifest; the
\* manifest section lock is released.
ScanMiss(p) ==
    /\ proc[p].pc = "scan"
    /\ ~proc[p].hasManifest \/ Matching(p) = {}
    /\ proc' = [proc EXCEPT ![p].pc = "compile",
                            ![p].reason = IF proc[p].hasManifest
                                          THEN "HeaderChangedMiss"
                                          ELSE "SourceChangedMiss"]
    /\ lock' = Release(lock, ManifestLock(getManifestHash(proc[p].src)))
    /\ UNCHANGED <<manifests, matime, artifacts, oatime, mdirs, adirs, stats,
                   cfg, objFile, nops, last, batch,
                   jobs, parse, unitVars>>

\* processDirect: "with artifactSection.lock: if artifactSection.hasEntry"
LockArtifact(p) ==
    LET k == proc[p].cachekey
    IN /\ proc[p].pc = "lockArtifact"
       /\ lock[ArtifactLock(k)] = NoProc
       /\ IF hasEntry(k)
          THEN /\ lock' = Acquire(lock, ArtifactLock(k), p)
               /\ proc' = [proc EXCEPT ![p].pc = "hitLockStats"]
          ELSE /\ lock' = lock
               /\ proc' = [proc EXCEPT ![p].pc = "scan"]
       /\ UNCHANGED <<manifests, matime, artifacts, oatime, mdirs, adirs,
                      stats, cfg, objFile, nops, last, batch,
                   jobs, parse, unitVars>>

\* processCacheHit: "with cache.statistics.lock"
HitLockStats(p) ==
    /\ proc[p].pc = "hitLockStats"
    /\ lock[StatsLock] = NoProc
    /\ lock' = Acquire(lock, StatsLock, p)
    /\ proc' = [proc EXCEPT ![p].pc = "hitStats"]
    /\ UNCHANGED <<manifests, matime, artifacts, oatime, mdirs, adirs, stats,
                   cfg, objFile, nops, last, batch,
                   jobs, parse, unitVars>>

\* processCacheHit: registerCacheHit, save, release the statistics lock
HitStats(p) ==
    /\ proc[p].pc = "hitStats"
    /\ stats' = registerCacheHit(stats)
    /\ lock' = Release(lock, StatsLock)
    /\ proc' = [proc EXCEPT ![p].pc = "hitCopy"]
    /\ UNCHANGED <<manifests, matime, artifacts, oatime, mdirs, adirs, cfg,
                   objFile, nops, last, batch,
                   jobs, parse, unitVars>>

\* processCacheHit: remove the object file, getEntry, copyOrLink; return 0
HitCopy(p) ==
    LET k == proc[p].cachekey
    IN /\ proc[p].pc = "hitCopy"
       /\ hasEntry(k)
       /\ objFile' = [objFile EXCEPT ![proc[p].src] = artifacts[k].object]
       /\ oatime' = Touch(oatime, k)
       /\ lock' = ReleaseAll(lock, p)
       /\ proc' = [proc EXCEPT ![p].pc = "done", ![p].rc = 0]
       /\ UNCHANGED <<manifests, matime, artifacts, mdirs, adirs, stats, cfg,
                      nops, last, batch,
                   jobs, parse, unitVars>>

\* processCacheHit: the entry is gone; getEntry's assertion fails after the
\* object file was removed, the process ends with a traceback (exit code 1)
\* and the system releases its mutexes.
HitCrash(p) ==
    LET k == proc[p].cachekey
    IN /\ proc[p].pc = "hitCopy"
       /\ ~hasEntry(k)
       /\ objFile' = [objFile EXCEPT ![proc[p].src] = NoObject]
       /\ lock' = ReleaseAll(lock, p)
       /\ proc' = [proc EXCEPT ![p].pc = "done", ![p].rc = 1,
                               ![p].crashed = TRUE]
       /\ UNCHANGED <<manifests, matime, artifacts, oatime, mdirs, adirs,
                      stats, cfg, nops, last, batch,
                   jobs, parse, unitVars>>

\* processDirect: invokeRealCompiler, no lock held
Compile(p) ==
    LET s == proc[p].src
        v == proc[p].ver
        code == CompilerExitCode(s, v)
    IN /\ proc[p].pc = "compile"
       /\ proc' = [proc EXCEPT ![p].pc = "lockManifest2", ![p].rc = code,
                               ![p].invoked = TRUE]
       /\ objFile' = IF code = 0 THEN [objFile EXCEPT ![s] = ObjectCode(s, v)]
                     ELSE objFile
       /\ UNCHANGED <<manifests, matime, artifacts, oatime, mdirs, adirs,
                      stats, cfg, lock, nops, last, batch,
                   jobs, parse, unitVars>>

\* processDirect: the second "with manifestSection.lock"; without a matched
\* entry the key comes from createManifestEntry
LockManifest2(p) ==
    LET h == getManifestHash(proc[p].src)
    IN /\ proc[p].pc = "lockManifest2"
       /\ lock[ManifestLock(h)] = NoProc
       /\ lock' = Acquire(lock, ManifestLock(h), p)
       /\ proc' = [proc EXCEPT ![p].pc = "lockArtifact2",
                               ![p].cachekey =
                                   IF proc[p].matched THEN proc[p].cachekey
                                   ELSE createManifestEntry(h, proc[p].ver).objectHash]
       /\ UNCHANGED <<manifests, matime, artifacts, oatime, mdirs, adirs,
                      stats, cfg, objFile, nops, last, batch,
                   jobs, parse, unitVars>>

\* ensureArtifactsExist: "with section.lock: if not section.hasEntry"; when
\* the entry exists nothing is registered or stored and the request returns
LockArtifact2(p) ==
    LET k == proc[p].cachekey
    IN /\ proc[p].pc = "lockArtifact2"
       /\ lock[ArtifactLock(k)] = NoProc
       /\ IF hasEntry(k)
          THEN /\ lock' = ReleaseAll(lock, p)
               /\ proc' = [proc EXCEPT ![p].pc = "done"]
          ELSE /\ lock' = Acquire(lock, ArtifactLock(k), p)
               /\ proc' = [proc EXCEPT ![p].pc = "lockStats2"]
       /\ UNCHANGED <<manifests, matime, artifacts, oatime, mdirs, adirs,
                      stats, cfg, objFile, nops, last, batch,
                   jobs, parse, unitVars>>

\* ensureArtifactsExist: "with cache.statistics.lock"
LockStats2(p) ==
    /\ proc[p].pc = "lockStats2"
    /\ lock[StatsLock] = NoProc
    /\ lock' = Acquire(lock, StatsLock, p)
    /\ proc' = [proc EXCEPT ![p].pc = "insert"]
    /\ UNCHANGED <<manifests, matime, artifacts, oatime, mdirs, adirs, stats,
                   cfg, objFile, nops, last, batch,
                   jobs, parse, unitVars>>

\* --------------------------------------------------------- no-direct mode
\* processCompileRequest, single source, CLCACHE_NODIRECT set: the request
\* for source s, seeing header content v, enters processNoDirect.
StartNoDirect(p, s, v) ==
    /\ proc[p].pc = "idle"
    /\ proc' = StartedBy(p, [IdleProc EXCEPT
                  !.pc = "preprocess", !.op = "compile", !.mode = "nodirect",
                  !.src = s, !.ver = v])
    /\ nops' = nops + 1
    /\ last' = NoLast
    /\ batch' = IF Quiescent
                THEN [n |-> 1, base |-> stats.CacheHits + stats.CacheMisses,
                      srcs |-> {s}, ok |-> TRUE]
                ELSE [n |-> batch.n + 1, base |-> batch.base,
                      srcs |-> batch.srcs \cup {s},
                      ok |-> batch.ok /\ s \notin batch.srcs]
    /\ UNCHANGED <<manifests, matime, artifacts, oatime, mdirs, adirs, stats,
                   cfg, objFile, lock,
                   jobs, parse, unitVars>>

\* a preprocessor whose exit code is not looked at
PreprocessorFailed_Never(returnCode) == FALSE

\* computeKeyNodirect: "if returnCode != 0"
PreprocessorFailed(returnCode) == returnCode # 0

\* computeKeyNodirect: the preprocessor runs; if it fails, sys.exit with its
\* return code, otherwise the key is the hash of its output
Preprocess(p) ==
    LET s == proc[p].src
        v == proc[p].ver
        returnCode == PreprocessorExitCode(s, v)
    IN /\ proc[p].pc = "preprocess"
       /\ proc' = [proc EXCEPT ![p] =
                      IF PreprocessorFailed(returnCode)
                      THEN [@ EXCEPT !.pc = "done", !.rc = returnCode]
                      ELSE [@ EXCEPT !.pc = "ndLockArtifact",
                                     !.cachekey = computeKeyNodirect(s, v)]]
       /\ UNCHANGED <<manifests, matime, artifacts, oatime, mdirs, adirs,
                      stats, cfg, objFile, lock, nops, last, batch,
                   jobs, parse, unitVars>>

\* processNoDirect: "with artifactSection.lock: if artifactSection.hasEntry";
\* on a hit processCacheHit runs with the lock held
NdLockArtifact(p) ==
    LET k == proc[p].cachekey
    IN /\ proc[p].pc = "ndLockArtifact"
       /\ lock[ArtifactLock(k)] = NoProc
       /\ IF hasEntry(k)
          THEN /\ lock' = Acquire(lock, ArtifactLock(k), p)
               /\ proc' = [proc EXCEPT ![p].pc = "hitLockStats"]
          ELSE /\ lock' = lock
               /\ proc' = [proc EXCEPT ![p].pc = "ndCompile"]
       /\ UNCHANGED <<manifests, matime, artifacts, oatime, mdirs, adirs,
                      stats, cfg, objFile, nops, last, batch,
                   jobs, parse, unitVars>>

\* processNoDirect: invokeRealCompiler, no lock held; ensureArtifactsExist
\* follows with the reason registerCacheMiss
NdCompile(p) ==
    LET s == proc[p].src
        v == proc[p].ver
        code == CompilerExitCode(s, v)
    IN /\ proc[p].pc = "ndCompile"
       /\ proc' = [proc EXCEPT ![p].pc = "lockArtifact2", ![p].rc = code,
                               ![p].invoked = TRUE,
                               ![p].reason = "CacheMiss"]
       /\ objFile' = IF code = 0 THEN [objFile EXCEPT ![s] = ObjectCode(s, v)]
                     ELSE objFile
       /\ UNCHANGED <<manifests, matime, artifacts, oatime, mdirs, adirs,
                      stats, cfg, lock, nops, last, batch,
                   jobs, parse, unitVars>>

\* a composite lock that takes the statistics lock first
CacheLockStages_StatsFirst == <<"S", "M", "A">>

\* Cache.lock: the order in which the composite lock takes the manifest
\* sections, the artifact sections and the statistics lock
CacheLockStages == <<"M", "A", "S">>

\* allSectionsLocked: "sections = list(repository.sections())", the locks of
\* the shard directories that exist when the lock is taken
SectionLocks(kind) ==
    LET dirs == SortedSeq(IF kind = "M" THEN mdirs ELSE adirs)
    IN [i \in 1..Len(dirs) |-> <<kind, dirs[i]>>]

\* the statistics lock needs no listing: it follows at once
Normalize(stage, todo) ==
    IF todo = <<>> /\ stage <= Len(CacheLockStages) /\ CacheLockStages[stage] = "S"
    THEN [stage |-> stage + 1, todo |-> <<StatsLock>>]
    ELSE [stage |-> stage, todo |-> todo]

\* entering "with cache.lock" for the given task
EnterCacheLock(rec, task) ==
    LET n == Normalize(1, <<>>)
    IN [rec EXCEPT !.pc = "cacheLock", !.task = task,
                   !.stage = n.stage, !.todo = n.todo]

\* a manifest update that adds the entry to the manifest the request read
\* during its lookup instead of the one the section holds now
createOrUpdateManifest_Stale(stored, seen, entry) == addEntry(seen, entry)

\* createOrUpdateManifest: "manifestSection.getManifest(manifestHash) or
\* Manifest()", addEntry; stored is the section's manifest at this moment
\* (<<>> when there is none), seen the one read during the lookup
createOrUpdateManifest(stored, seen, entry) == addEntry(stored, entry)

\* a test that asks for a clean-up only above the maximum
maximumReached_Above(st, maximumCacheSize) == st.CacheSize > maximumCacheSize

\* addObjectToCache: "return stats.currentCacheSize() >=
\* cfg.maximumCacheSize()"
maximumReached(st, maximumCacheSize) == st.CacheSize >= maximumCacheSize

\* ensureArtifactsExist under the section and statistics locks: register the
\* miss; if the compile succeeded and the object file exists, addObjectToCache
\* and, when no manifest entry had matched, addManifest
Insert(p) ==
    LET s == proc[p].src
        h == getManifestHash(s)
        k == proc[p].cachekey
        store == proc[p].rc = 0 /\ objFile[s] # NoObject
        registered == ApplyReason(stats, proc[p].reason)
        newStats == IF store THEN registerCacheEntry(registered, ObjectBytes)
                    ELSE registered
        cleanupRequired == store /\ maximumReached(newStats, cfg)
        addManifest == store /\ ~proc[p].matched /\ proc[p].mode = "direct"
        entry == createManifestEntry(h, proc[p].ver)
        old == IF h \in DOMAIN manifests THEN manifests[h] ELSE <<>>
    IN /\ proc[p].pc = "insert"
       /\ stats' = newStats
       /\ artifacts' = IF store
                       THEN [x \in DOMAIN artifacts \cup {k} |->
                               IF x = k THEN [object |-> objFile[s],
                                              size |-> ObjectBytes]
                               ELSE artifacts[x]]
                       ELSE artifacts
       /\ oatime' = IF store THEN Touch(oatime, k) ELSE oatime
       /\ adirs' = IF store THEN adirs \cup {ArtifactShard(k)} ELSE adirs
       /\ manifests' = IF addManifest
                       THEN [x \in DOMAIN manifests \cup {h} |->
                               IF x = h
                               THEN createOrUpdateManifest(old, proc[p].mf,
                                                           entry)
                               ELSE manifests[x]]
                       ELSE manifests
       /\ matime' = IF addManifest THEN Touch(matime, h) ELSE matime
       /\ mdirs' = IF addManifest THEN mdirs \cup {ManifestShard(h)} ELSE mdirs
       /\ lock' = ReleaseAll(lock, p)
       /\ proc' = [proc EXCEPT ![p] =
                      IF cleanupRequired
                      THEN EnterCacheLock([proc[p] EXCEPT !.cleanup = TRUE], "clean")
                      ELSE [proc[p] EXCEPT !.pc = "done"]]
       /\ UNCHANGED <<cfg, objFile, nops, last, batch,
                   jobs, parse, unitVars>>

\* ---------------------------------------------------- command line analyzer
\* A token is the sequence of its characters; '' is <<>>.
\* /NAMEparameter (no space, required parameter)
ArgumentT1 ==
    {<<"O", "b">>, <<"Y", "l">>, <<"Z", "m">>}

\* /NAME[parameter] (no space, optional parameter)
ArgumentT2 ==
    {<<"d", "o", "c">>, <<"F", "A">>, <<"F", "R">>, <<"F", "r">>,
     <<"G", "s">>, <<"M", "P">>, <<"Y", "c">>, <<"Y", "u">>, <<"Z", "p">>,
     <<"F", "a">>, <<"F", "d">>, <<"F", "e">>, <<"F", "i">>, <<"F", "m">>,
     <<"F", "o">>, <<"F", "p">>, <<"W", "v">>}

\* /NAME[ ]parameter (optional space)
ArgumentT3 ==
    {<<"A", "I">>, <<"D">>, <<"T", "c">>, <<"T", "p">>, <<"F", "I">>,
     <<"U">>, <<"I">>, <<"F">>, <<"F", "U">>, <<"w", "1">>, <<"w", "2">>,
     <<"w", "3">>, <<"w", "4">>, <<"w", "d">>, <<"w", "e">>, <<"w", "o">>,
     <<"V">>}

\* /NAME parameter (required space)
ArgumentT4 == {}

argumentsWithParameter ==
    ArgumentT1 \cup ArgumentT2 \cup ArgumentT3 \cup ArgumentT4

\* no name of the table matches
NoArgument == <<>>

\* str.startswith(prefix, start), start counted from 0
startswith(token, prefix, start) ==
    /\ Len(token) >= start + Len(prefix)
    /\ SubSeq(token, start + 1, start + Len(prefix)) = prefix

\* the slice token[start:], start counted from 0
SliceFrom(token, start) == SubSeq(token, start + 1, Len(token))

\* _getParameterizedArgumentType: the names sorted by length, longest first;
\* the first that the token holds from position 1 on
getParameterizedArgumentType(cmdLineArgument) ==
    LET found == {arg \in argumentsWithParameter :
                     startswith(cmdLineArgument, arg, 1)}
    IN IF found = {} THEN NoArgument
       ELSE CHOOSE arg \in found : \A other \in found : Len(other) <= Len(arg)

\* arguments[name].append(value) on the defaultdict(list)
AppendArgument(arguments, name, value) ==
    [x \in DOMAIN arguments \cup {name} |->
        IF x = name
        THEN Append(IF name \in DOMAIN arguments THEN arguments[name] ELSE <<>>,
                    value)
        ELSE arguments[x]]

\* the command lines analysis is tried on; response file tokens are left
\* out, expandCommandLine has replaced them before analyze runs
Tokens ==
    {<<"a", ".", "c">>,
     <<"/", "c">>,
     <<"/", "E">>,
     <<"/", "Z", "i">>,
     <<"/", "Y", "c">>,
     <<"/", "l", "i", "n", "k">>,
     <<"/", "Z", "m">>,
     <<"/", "T", "p">>,
     <<"/", "T", "p", "b", ".", "c">>,
     <<>>,
     <<"/", "F", "o">>}

RECURSIVE SeqsUpTo(_, _)
SeqsUpTo(S, n) ==
    IF n = 0 THEN {<<>>}
    ELSE LET shorter == SeqsUpTo(S, n - 1)
         IN shorter \cup {Append(q, x) : q \in shorter, x \in S}

CmdLines == SeqsUpTo(Tokens, MaxTokens)

\* the position in path after its last directory separator
RECURSIVE BaseStart(_, _)
BaseStart(path, n) ==
    IF n = 0 THEN 0
    ELSE IF path[n] \in {"/", "\\"} THEN n
    ELSE BaseStart(path, n - 1)

\* the position of the last dot of name, 0 without one
RECURSIVE LastDot(_, _)
LastDot(name, n) ==
    IF n = 0 THEN 0
    ELSE IF name[n] = "." THEN n
    ELSE LastDot(name, n - 1)

\* basenameWithoutExtension: os.path.splitext(os.path.basename(path))[0]
basenameWithoutExtension(path) ==
    LET basename == SliceFrom(path, BaseStart(path, Len(path)))
        dot == LastDot(basename, Len(basename))
    IN IF dot <= 1 THEN basename ELSE SubSeq(basename, 1, dot - 1)

\* CommandLineAnalyzer.analyze is called with cmdline
StartAnalyze(cmdline) ==
    /\ parse.pc = "idle"
    /\ parse' = [NoParse EXCEPT !.pc = "scan", !.cmdline = cmdline, !.i = 0]
    /\ UNCHANGED <<cacheVars, jobs, unitVars>>

\* analysis ends by raising the given exception
Raise(exception) == [parse EXCEPT !.pc = "done", !.outcome = exception]

\* parseArgumentsAndInputFiles: one round of "while i < len(cmdline)"
ParseToken ==
    LET cmdline == parse.cmdline
        i == parse.i
        cmdLineArgument == cmdline[i + 1]
        arg == getParameterizedArgumentType(cmdLineArgument)
        suffix == SliceFrom(cmdLineArgument, Len(arg) + 1)
        Store(name, value, next) ==
            [parse EXCEPT !.arguments = AppendArgument(@, name, value),
                          !.i = next]
    IN /\ parse.pc = "scan"
       /\ i < Len(cmdline)
       /\ parse' =
            IF startswith(cmdLineArgument, <<"/">>, 0)
               \/ startswith(cmdLineArgument, <<"-">>, 0)
            THEN IF arg # NoArgument
                 THEN IF arg \in ArgumentT1
                      THEN IF suffix = <<>>
                           THEN Raise("InvalidArgumentError")
                           ELSE Store(arg, suffix, i + 1)
                      ELSE IF arg \in ArgumentT2
                      THEN Store(arg, suffix, i + 1)
                      ELSE IF arg \in ArgumentT3 /\ suffix # <<>>
                      THEN Store(arg, suffix, i + 1)
                      ELSE IF i + 1 < Len(cmdline)
                      THEN Store(arg, cmdline[i + 2], i + 2)
                      ELSE Raise("IndexError")
                 ELSE Store(SliceFrom(cmdLineArgument, 1), <<>>, i + 1)
            ELSE IF cmdLineArgument = <<>>
            THEN Raise("IndexError")
            ELSE IF cmdLineArgument[1] = "@"
            THEN Raise("AssertionError")
            ELSE [parse EXCEPT !.inputFiles = Append(@, cmdLineArgument),
                               !.i = i + 1]
       /\ UNCHANGED <<cacheVars, jobs, unitVars>>

\* analyze after parseArgumentsAndInputFiles has returned: the decision
Decide ==
    LET options == parse.arguments
        has(name) == name \in DOMAIN options
        Tp == <<"T", "p">>
        Tc == <<"T", "c">>
        Fo == <<"F", "o">>
        withTp == parse.inputFiles \o (IF has(Tp) THEN options[Tp] ELSE <<>>)
        inputFiles == withTp \o (IF has(Tc) THEN options[Tc] ELSE <<>>)
        compl == has(Tp) \/ has(Tc)
        outcome ==
            IF Len(inputFiles) = 0 THEN "NoSourceFileError"
            ELSE IF has(<<"E">>) \/ has(<<"E", "P">>) \/ has(<<"P">>)
            THEN "CalledForPreprocessingError"
            ELSE IF has(<<"Z", "i">>) THEN "ExternalDebugInfoError"
            ELSE IF has(<<"Y", "c">>) \/ has(<<"Y", "u">>)
            THEN "CalledWithPchError"
            ELSE IF has(<<"l", "i", "n", "k">>) \/ ~has(<<"c">>)
            THEN "CalledForLinkError"
            ELSE IF Len(inputFiles) > 1 /\ compl
            THEN "MultipleSourceFilesComplexError"
            ELSE "ok"
        objectFile ==
            IF Len(inputFiles) # 1 THEN <<>>
            ELSE IF has(Fo) /\ options[Fo][1] # <<>> THEN options[Fo][1]
            ELSE basenameWithoutExtension(inputFiles[1])
                     \o <<".", "o", "b", "j">>
    IN /\ parse.pc = "scan"
       /\ parse.i >= Len(parse.cmdline)
       /\ parse' = [parse EXCEPT
                       !.pc = "done", !.outcome = outcome,
                       !.sourceFiles = IF outcome = "ok" THEN inputFiles ELSE @,
                       !.objectFile = IF outcome = "ok" THEN objectFile ELSE @]
       /\ UNCHANGED <<cacheVars, jobs, unitVars>>

\* ---------------------------------------------------- command line tokenizer
\* the characters of a command string: white space, the double quote, the
\* backslash and any other character
Chars == {" ", "\"", "\\", "a"}

\* str.isspace
isspace(currentChar) == currentChar = " "

Contents == SeqsUpTo(Chars, MaxContent)

\* '\\' * n
Backslashes(n) == [k \in 1..n |-> "\\"]

RECURSIVE RunEnd(_, _)
\* _parseBackslash: the while loop, _pos moves behind the run of backslashes
RunEnd(content, pos) ==
    IF pos < Len(content) /\ content[pos + 1] = "\\"
    THEN RunEnd(content, pos + 1) ELSE pos

\* a _parseBackslash that keeps every backslash and leaves the quote alone
parseBackslash_Literal(content, pos, token) ==
    [token |-> token \o Backslashes(RunEnd(content, pos) - pos),
     pos |-> RunEnd(content, pos) - 1]

\* _parseBackslash: called at the first backslash of a run; gives the new
\* _token and the new _pos
parseBackslash(content, pos, token) ==
    LET end == RunEnd(content, pos)
        numBackslashes == end - pos
        followedByDoubleQuote == end < Len(content) /\ content[end + 1] = "\""
    IN IF followedByDoubleQuote
       THEN IF numBackslashes % 2 = 0
            THEN [token |-> token \o Backslashes(numBackslashes \div 2),
                  pos |-> end - 1]
            ELSE [token |-> token \o Backslashes(numBackslashes \div 2)
                                  \o <<"\"">>,
                  pos |-> end]
       ELSE [token |-> token \o Backslashes(numBackslashes), pos |-> end - 1]

\* CommandLineTokenizer.__init__: the fields are set
StartTokenize(content) ==
    /\ tokenizer.pc = "idle"
    /\ tokenizer' = [NoTokenizer EXCEPT !.pc = "loop", !.content = content]
    /\ UNCHANGED <<cacheVars, jobs, parse, mfile, mentry, build, spawn>>

\* _initialState, _unquotedState and _quotedState: the next parser, _token,
\* argv and _pos after the call for currentChar
ParserStep(t) ==
    LET currentChar == t.content[t.pos + 1]
        back == parseBackslash(t.content, t.pos, t.token)
        quoted == t.parser = "quotedState"
    IN CASE ~quoted /\ isspace(currentChar) ->
                IF t.parser = "initialState" THEN t
                ELSE [t EXCEPT !.argv = Append(@, t.token), !.token = <<>>,
                               !.parser = "initialState"]
         [] currentChar = "\"" ->
                [t EXCEPT !.parser = IF quoted THEN "unquotedState"
                                     ELSE "quotedState"]
         [] currentChar = "\\" ->
                [t EXCEPT !.token = back.token, !.pos = back.pos,
                          !.parser = IF quoted THEN "quotedState"
                                     ELSE "unquotedState"]
         [] OTHER ->
                [t EXCEPT !.token = Append(@, currentChar),
                          !.parser = IF quoted THEN "quotedState"
                                     ELSE "unquotedState"]

\* CommandLineTokenizer.__init__: one round of the while loop
ParseChar ==
    /\ tokenizer.pc = "loop"
    /\ tokenizer.pos < Len(tokenizer.content)
    /\ tokenizer' = [ParserStep(tokenizer) EXCEPT !.pos = @ + 1]
    /\ UNCHANGED <<cacheVars, jobs, parse, mfile, mentry, build, spawn>>

\* CommandLineTokenizer.__init__: the loop is over, "if self._token"
EndTokenize ==
    /\ tokenizer.pc = "loop"
    /\ tokenizer.pos >= Len(tokenizer.content)
    /\ tokenizer' = [tokenizer EXCEPT
                        !.pc = "done",
                        !.argv = IF tokenizer.token # <<>>
                                 THEN Append(@, tokenizer.token) ELSE @]
    /\ UNCHANGED <<cacheVars, jobs, parse, mfile, mentry, build, spawn>>

\* ------------------------------------------------------- persisted files
\* ManifestEntry: the named tuple, fields by position
ManifestEntry(includeFiles, includesContentHash, objectHash) ==
    <<includeFiles, includesContentHash, objectHash>>

\* the manifest entries written in SpecFiles
FileEntries ==
    {ManifestEntry(f, h, k) : f \in SeqsUpTo({"a.h", "b.h"}, 2),
                              h \in {"h1", "h2"}, k \in {"k1", "k2"}}

\* the manifests written in SpecFiles
FileManifests == SeqsUpTo(FileEntries, MaxFileEntries)

\* the dictionaries saved in SpecFiles
FileDicts ==
    {[CacheHits |-> 0], [CacheHits |-> 1, CacheMisses |-> 2],
     [MaximumCacheSize |-> DefaultMaximumCacheSize]}

\* a file that does not hold what the program wrote: cut off before the
\* first byte, cut off later, or a JSON document of another layout
Damaged ==
    {[kind |-> "empty"], [kind |-> "malformed"],
     [kind |-> "json", doc |-> [includeFiles |-> <<"a.h">>, hash |-> "h1"]]}

\* an _asdict that mixes up the two hashes
asdict_Swapped(e) ==
    [includeFiles |-> e[1], includesContentHash |-> e[3], objectHash |-> e[2]]

\* namedtuple._asdict: the fields by name
asdict(e) ==
    [includeFiles |-> e[1], includesContentHash |-> e[2], objectHash |-> e[3]]

\* json.dump: the text of a JSON document
json_dump(jsonobject) == [kind |-> "json", doc |-> jsonobject]

\* json.load: the document, or ValueError for a text that is no JSON
json_load(content) ==
    IF content.kind = "json" THEN [error |-> "none", doc |-> content.doc]
    ELSE [error |-> "ValueError"]

\* ManifestSection.setManifest: the content of the manifest file
setManifest(entries) ==
    json_dump([entries |-> [i \in 1..Len(entries) |-> asdict(entries[i])]])

\* ManifestSection.getManifest: None for a file that does not exist; IOError
\* is the one exception that is caught
getManifest(content) ==
    LET loaded == json_load(content)
        EntryKeys == {"includeFiles", "includesContentHash", "objectHash"}
    IN IF content.kind = "absent"
       THEN [error |-> "none", present |-> FALSE, entries |-> <<>>]
       ELSE IF loaded.error # "none"
       THEN [error |-> loaded.error, present |-> FALSE, entries |-> <<>>]
       ELSE IF \/ "entries" \notin DOMAIN loaded.doc
               \/ \E i \in 1..Len(loaded.doc.entries) :
                      ~(EntryKeys \subseteq DOMAIN loaded.doc.entries[i])
       THEN [error |-> "KeyError", present |-> FALSE, entries |-> <<>>]
       ELSE [error |-> "none", present |-> TRUE,
             entries |-> [i \in 1..Len(loaded.doc.entries) |->
                            LET e == loaded.doc.entries[i]
                            IN ManifestEntry(e.includeFiles,
                                             e.includesContentHash,
                                             e.objectHash)]]

\* PersistentJSONDict.__init__: the dictionary; IOError (no such file) is
\* the one exception that is caught
PersistentJSONDict(content) ==
    LET loaded == json_load(content)
    IN IF content.kind = "absent" THEN [error |-> "none", dict |-> <<>>]
       ELSE IF loaded.error # "none"
       THEN [error |-> loaded.error, dict |-> <<>>]
       ELSE [error |-> "none", dict |-> loaded.doc]

\* setManifest writes the manifest file
WriteManifest(entries) ==
    /\ mfile.pc = "idle"
    /\ mfile' = [mfile EXCEPT !.pc = "stored", !.file = "manifest",
                              !.written = entries,
                              !.content = setManifest(entries)]
    /\ UNCHANGED <<cacheVars, jobs, parse, tokenizer, mentry, build, spawn>>

\* PersistentJSONDict.save writes stats.txt or config.txt
SaveDict(dict) ==
    /\ mfile.pc = "idle"
    /\ mfile' = [mfile EXCEPT !.pc = "stored", !.file = "dict",
                              !.written = dict,
                              !.content = json_dump(dict)]
    /\ UNCHANGED <<cacheVars, jobs, parse, tokenizer, mentry, build, spawn>>

\* the file is absent or does not hold what the program wrote
Damage(file, content) ==
    /\ mfile.pc = "idle"
    /\ mfile' = [mfile EXCEPT !.pc = "damaged", !.file = file,
                              !.content = content]
    /\ UNCHANGED <<cacheVars, jobs, parse, tokenizer, mentry, build, spawn>>

\* getManifest reads the manifest file
ReadManifest ==
    /\ mfile.pc \in {"stored", "damaged"}
    /\ mfile.file = "manifest"
    /\ mfile' = [mfile EXCEPT !.pc = IF mfile.pc = "stored" THEN "read"
                                     ELSE "readDamaged",
                              !.result = getManifest(mfile.content)]
    /\ UNCHANGED <<cacheVars, jobs, parse, tokenizer, mentry, build, spawn>>

\* Statistics.__enter__ or Configuration.__enter__ opens its file
OpenDict ==
    /\ mfile.pc \in {"stored", "damaged"}
    /\ mfile.file = "dict"
    /\ mfile' = [mfile EXCEPT !.pc = IF mfile.pc = "stored" THEN "read"
                                     ELSE "readDamaged",
                              !.result = PersistentJSONDict(mfile.content)]
    /\ UNCHANGED <<cacheVars, jobs, parse, tokenizer, mentry, build, spawn>>

\* ------------------------------------------------- paths and manifest entries
\* A path is the sequence of its characters; os.path.normcase is left out,
\* every path is in lower case and has one kind of separator.
\* the characters of the paths, in the order of their code points
CharOrder == <<"/", "?", "c", "g", "h", "m", "p", "q", "s">>

Rank(c) == CHOOSE i \in 1..Len(CharOrder) : CharOrder[i] = c

RECURSIVE PathLess(_, _)
\* the order of str: p < q
PathLess(p, q) ==
    IF q = <<>> THEN FALSE
    ELSE IF p = <<>> THEN TRUE
    ELSE IF Head(p) # Head(q) THEN Rank(Head(p)) < Rank(Head(q))
    ELSE PathLess(Tail(p), Tail(q))

RECURSIVE SortPaths(_)
\* sorted(S) for a set of paths
SortPaths(S) ==
    IF S = {} THEN <<>>
    ELSE LET m == CHOOSE x \in S : \A y \in S \ {x} : PathLess(x, y)
         IN <<m>> \o SortPaths(S \ {m})

\* BASEDIR_REPLACEMENT
BASEDIR_REPLACEMENT == <<"?">>

\* CLCACHE_BASEDIR is not set
NoBaseDir == <<>>

\* normalizeBaseDir: without the separator at the end; None for ''
normalizeBaseDir(baseDir) ==
    IF baseDir # <<>> /\ baseDir[Len(baseDir)] = "/"
    THEN SubSeq(baseDir, 1, Len(baseDir) - 1)
    ELSE baseDir

\* collapseBasedirToPlaceholder: path.replace(baseDir, '?', 1) for a path
\* that starts with the base directory
collapseBasedirToPlaceholder(path, env) ==
    LET baseDir == normalizeBaseDir(env)
    IN IF baseDir = NoBaseDir THEN path
       ELSE IF startswith(path, baseDir, 0)
       THEN BASEDIR_REPLACEMENT \o SliceFrom(path, Len(baseDir))
       ELSE path

\* expandBasedirPlaceholder, for a base directory that is set whenever the
\* path starts with the placeholder
expandBasedirPlaceholder(path, env) ==
    LET baseDir == normalizeBaseDir(env)
    IN IF startswith(path, BASEDIR_REPLACEMENT, 0)
       THEN baseDir \o SliceFrom(path, Len(BASEDIR_REPLACEMENT))
       ELSE path

\* getFileHash without additional data: the hash of the content
getFileHash(files, path) == files[path]

\* getIncludesContentHashForHashes: the hash of the hashes joined by ','
getIncludesContentHashForHashes(listOfHashes) == listOfHashes

\* the include paths as they are given
sortedSet_AsGiven(includePaths) == includePaths

\* sorted(set(includePaths))
sortedSet(includePaths) == SortPaths(SeqToSet(includePaths))

\* createManifestEntry for a list of include paths, the files on disk and
\* the value of CLCACHE_BASEDIR
createManifestEntryForPaths(manifestHash, includePaths, files, env) ==
    LET sortedIncludePaths == sortedSet(includePaths)
        n == Len(sortedIncludePaths)
        includeHashes == [i \in 1..n |-> getFileHash(files, sortedIncludePaths[i])]
        safeIncludes ==
            [i \in 1..n |-> collapseBasedirToPlaceholder(sortedIncludePaths[i], env)]
        includesContentHash == getIncludesContentHashForHashes(includeHashes)
        cachekey == computeKeyDirect(manifestHash, includesContentHash)
    IN ManifestEntry(safeIncludes, includesContentHash, cachekey)

\* the headers of SpecEntry: two in one directory, one elsewhere
HeaderPaths ==
    {<<"/", "p", "/", "g">>, <<"/", "p", "/", "h">>, <<"/", "s", "/", "h">>}

\* the include lists given to createManifestEntry
IncludeLists == SeqsUpTo(HeaderPaths, MaxIncludes)

\* createManifestEntry is called
MakeEntry(files, env, includePaths) ==
    /\ mentry.pc = "idle"
    /\ mentry' = [pc |-> "done", files |-> files, baseDir |-> env,
                  includePaths |-> includePaths,
                  made |-> createManifestEntryForPaths("m", includePaths,
                                                       files, env)]
    /\ UNCHANGED <<cacheVars, jobs, parse, tokenizer, mfile, build, spawn>>

\* the call returned
ForgetEntry ==
    /\ mentry.pc = "done"
    /\ mentry' = NoEntry
    /\ UNCHANGED <<cacheVars, jobs, parse, tokenizer, mfile, build, spawn>>

\* ------------------------------------------- one source tree, many locations
\* the directories that hold a copy of the source tree: main source file m
\* and header h
Locations == {<<"/", "p">>, <<"/", "q">>}

\* the header outside the tree that the source includes by its absolute
\* path: none, one in /s, one in /pc
ExtHeaders == {<<>>, <<"/", "s", "/", "h">>, <<"/", "p", "c", "/", "h">>}

\* the files on disk and their contents: every copy of the tree, and the
\* header outside of it
DiskFiles(ext) ==
    LET tree == UNION {{loc \o <<"/", "m">>, loc \o <<"/", "h">>} : loc \in Locations}
        all == tree \cup (IF ext = <<>> THEN {} ELSE {ext})
    IN [path \in all |-> IF path = ext THEN 2
                         ELSE IF path[Len(path)] = "m" THEN 3 ELSE 1]

\* os.path.abspath in the working directory cwd
abspath(cwd, path) ==
    LET joined == IF path # <<>> /\ path[1] = "/" THEN path
                  ELSE cwd \o <<"/">> \o path
    IN IF Len(joined) > 1 /\ joined[Len(joined)] = "/"
       THEN SubSeq(joined, 1, Len(joined) - 1) ELSE joined

\* getManifestHash for the parsed command line (arguments in the order of
\* their names, each with its values): the hash of the source file's content
\* and of the command line, paths of /AI, /I, /FU and of the input files
\* made absolute and collapsed
getManifestHashOf(arguments, inputFiles, cwd, env, files) ==
    LET collapseBasedirInCmdPath(path) ==
            collapseBasedirToPlaceholder(abspath(cwd, path), env)
        argumentsWithPaths == {<<"A", "I">>, <<"I">>, <<"F", "U">>}
        option(a) == <<"/">> \o a[1] \o
                     (IF a[1] \in argumentsWithPaths
                      THEN collapseBasedirInCmdPath(a[2]) ELSE a[2])
        commandLine ==
            [i \in 1..Len(arguments) |-> option(arguments[i])]
            \o [i \in 1..Len(inputFiles) |-> collapseBasedirInCmdPath(inputFiles[i])]
    IN <<getFileHash(files, abspath(cwd, inputFiles[1])), commandLine>>

\* the path that processDirect looks up for a stored include path
Expanded(path, env) == expandBasedirPlaceholder(path, env)

\* getIncludesContentHashForFiles for the include paths of an entry: the
\* entry is usable if every file exists and the hash is the recorded one
Usable(e, files, env) ==
    LET paths == [i \in 1..Len(e[1]) |-> Expanded(e[1][i], env)]
    IN /\ \A i \in 1..Len(paths) : paths[i] \in DOMAIN files
       /\ e[2] = getIncludesContentHashForHashes(
                     [i \in 1..Len(paths) |-> getFileHash(files, paths[i])])

\* the builds are set up: CLCACHE_BASEDIR is each location's root or is not
\* set, the command line has /I<location> or not, names the source file by
\* its relative or its absolute path
Configure(mode, option, input, ext) ==
    /\ build.pc = "idle"
    /\ build' = [NoBuild EXCEPT !.pc = "ready", !.mode = mode,
                                !.option = option, !.input = input,
                                !.ext = ext]
    /\ UNCHANGED <<cacheVars, jobs, parse, tokenizer, mfile, mentry, spawn>>

\* processDirect for "cl /c [/I<loc>] m" run in loc by one process: look the
\* manifest up, hit on the first usable entry; otherwise compile, make the
\* entry and ensureArtifactsExist
Build(loc) ==
    LET env == IF build.mode = "root" THEN loc ELSE NoBaseDir
        files == DiskFiles(build.ext)
        sourceFile == IF build.input = "abs" THEN loc \o <<"/", "m">>
                      ELSE <<"m">>
        arguments == (IF build.option = "I" THEN << <<<<"I">>, loc>> >>
                      ELSE <<>>) \o << <<<<"c">>, <<>>>> >>
        manifestHash == getManifestHashOf(arguments, <<sourceFile>>, loc,
                                          env, files)
        entries == IF manifestHash \in DOMAIN build.manifests
                   THEN build.manifests[manifestHash] ELSE <<>>
        matching == {i \in 1..Len(entries) :
                        /\ Usable(entries[i], files, env)
                        /\ entries[i][3] \in build.artifacts}
        hit == matching # {}
        entryIndex == CHOOSE i \in matching : \A j \in matching : i <= j
        includePaths ==
            SortPaths({loc \o <<"/", "h">>}
                      \cup (IF build.ext = <<>> THEN {} ELSE {build.ext}))
        entry == createManifestEntryForPaths(manifestHash, includePaths,
                                             files, env)
        cachekey == entry[3]
        fresh == cachekey \notin build.artifacts
        manifest == IF hit THEN touchEntry(entries, entryIndex)
                    ELSE IF fresh THEN addEntry(entries, entry)
                    ELSE entries
    IN /\ build.pc = "ready"
       /\ Len(build.log) < MaxBuilds
       /\ build' =
            [build EXCEPT
               !.manifests =
                   IF hit \/ fresh
                   THEN [x \in DOMAIN build.manifests \cup {manifestHash} |->
                           IF x = manifestHash THEN manifest
                           ELSE build.manifests[x]]
                   ELSE @,
               !.artifacts = IF ~hit /\ fresh THEN @ \cup {cachekey} ELSE @,
               !.hits = IF hit THEN @ + 1 ELSE @,
               !.misses = IF ~hit /\ fresh THEN @ + 1 ELSE @,
               !.log = Append(@, [loc |-> loc, manifestHash |-> manifestHash,
                                  includeFiles |-> IF hit THEN entries[entryIndex][1]
                                                   ELSE entry[1],
                                  hit |-> hit])]
       /\ UNCHANGED <<cacheVars, jobs, parse, tokenizer, mfile, mentry, spawn>>

\* ------------------------------------------ command lines analysis rejects
\* processCompileRequest: CommandLineAnalyzer.analyze raises the given
\* AnalysisError for the command line; v tells how the real compiler will
\* fare with it
StartRejected(p, error, s, v) ==
    /\ proc[p].pc = "idle"
    /\ proc' = StartedBy(p, [IdleProc EXCEPT
                  !.pc = "rejected", !.op = "rejected", !.error = error,
                  !.src = s, !.ver = v])
    /\ nops' = nops + 1
    /\ last' = NoLast
    /\ batch' = [batch EXCEPT !.ok = FALSE]
    /\ UNCHANGED <<manifests, matime, artifacts, oatime, mdirs, adirs, stats,
                   cfg, objFile, lock,
                   jobs, parse, unitVars>>

\* updateCacheStatistics: "with cache.statistics.lock"
RejectLockStats(p) ==
    /\ proc[p].pc = "rejected"
    /\ lock[StatsLock] = NoProc
    /\ lock' = Acquire(lock, StatsLock, p)
    /\ proc' = [proc EXCEPT ![p].pc = "rejectStats"]
    /\ UNCHANGED <<manifests, matime, artifacts, oatime, mdirs, adirs, stats,
                   cfg, objFile, nops, last, batch,
                   jobs, parse, unitVars>>

\* updateCacheStatistics: method(stats), save, release the statistics lock
RejectStats(p) ==
    /\ proc[p].pc = "rejectStats"
    /\ stats' = updateCacheStatistics(stats, proc[p].error)
    /\ lock' = Release(lock, StatsLock)
    /\ proc' = [proc EXCEPT ![p].pc = "forward"]
    /\ UNCHANGED <<manifests, matime, artifacts, oatime, mdirs, adirs, cfg,
                   objFile, nops, last, batch,
                   jobs, parse, unitVars>>

\* processCompileRequest: "return invokeRealCompiler(compiler, args[1:])";
\* whether the forwarded command writes an object file is up to the command
Forward(p) ==
    LET s == proc[p].src
        code == CompilerExitCode(s, proc[p].ver)
    IN /\ proc[p].pc = "forward"
       /\ proc' = [proc EXCEPT ![p].pc = "done", ![p].rc = code,
                               ![p].invoked = TRUE, ![p].forwarded = "argv"]
       /\ \E writes \in BOOLEAN :
             objFile' = IF writes /\ code = 0
                        THEN [objFile EXCEPT ![s] = ObjectCode(s, proc[p].ver)]
                        ELSE objFile
       /\ UNCHANGED <<manifests, matime, artifacts, oatime, mdirs, adirs,
                      stats, cfg, lock, nops, last, batch,
                   jobs, parse, unitVars>>

\* ------------------------------------------------------ multi-source fan-out
\* a /MP switch without a count
NoCount == -1

\* the /MP switches a command line may hold, in order: their counts
MpSwitches ==
    {<<>>, <<NoCount>>} \cup {<<n>> : n \in 1..MaxJobCount}
    \cup {<<m, n>> : m, n \in 1..MaxJobCount}

\* jobCount: 1 without /MP; else the last switch decides, by its count or,
\* without one, by the CPU count
jobCount(mpSwitches) ==
    IF mpSwitches = <<>> THEN 1
    ELSE LET count == mpSwitches[Len(mpSwitches)]
         IN IF count # NoCount THEN count ELSE CpuCount

\* a runJobs that goes on after a failed child
Aborts_Never(thiscode) == FALSE

\* runJobs: "if thiscode != 0: return thiscode"
Aborts(thiscode) == thiscode # 0

\* reinvokePerSourceFile: one command per source file, run by
\* runJobs(commands, environment, jobCount(cmdLine)); codes are the exit
\* codes the children will end with
StartJobs(mpSwitches, codes) ==
    /\ jobs.pc = "idle"
    /\ jobs' = [NoJobs EXCEPT
                  !.pc = "loop", !.j = jobCount(mpSwitches),
                  !.commands = [c \in 1..Len(codes) |-> c],
                  !.status = [c \in 1..Len(codes) |-> "new"],
                  !.codes = codes]
    /\ UNCHANGED <<cacheVars, parse, unitVars>>

\* the loop test of runJobs that leads to waitForAnyProcess
MustWait ==
    \/ jobs.commands # <<>> /\ Len(jobs.running) > jobs.j
    \/ jobs.commands = <<>> /\ jobs.running # <<>>

\* runJobs: "thiscmd = commands.pop(0); running.append(subprocess.Popen(..))"
Spawn ==
    /\ jobs.pc = "loop"
    /\ jobs.commands # <<>>
    /\ ~(Len(jobs.running) > jobs.j)
    /\ LET c == Head(jobs.commands)
       IN jobs' = [jobs EXCEPT !.commands = Tail(jobs.commands),
                               !.running = Append(jobs.running, c),
                               !.status[c] = "running"]
    /\ UNCHANGED <<cacheVars, parse, unitVars>>

\* a child process ends
ChildExits(c) ==
    /\ c \in DOMAIN jobs.status
    /\ jobs.status[c] = "running"
    /\ jobs' = [jobs EXCEPT !.status[c] = "exited"]
    /\ UNCHANGED <<cacheVars, parse, unitVars>>

\* the children in the list that poll() finds ended
Ended(running) == SelectSeq(running, LAMBDA c : jobs.status[c] = "exited")

\* runJobs after waitForAnyProcess has returned child out
Reaped(out, running) ==
    LET thiscode == jobs.codes[out]
    IN [jobs EXCEPT !.running = running,
                    !.waiting = 0,
                    !.reaped = Append(jobs.reaped, out),
                    !.pc = IF Aborts(thiscode) THEN "done" ELSE "loop",
                    !.result = IF Aborts(thiscode) THEN thiscode ELSE 0]

\* waitForAnyProcess: some child has ended, the first of them in the list is
\* removed and returned
Poll ==
    /\ jobs.pc = "loop"
    /\ MustWait
    /\ Ended(jobs.running) # <<>>
    /\ LET out == Head(Ended(jobs.running))
       IN jobs' = Reaped(out, RemoveFromSeq(jobs.running, out))
    /\ UNCHANGED <<cacheVars, parse, unitVars>>

\* waitForAnyProcess: none has ended, "out = procs.pop(0); out.wait()"
BeginWait ==
    /\ jobs.pc = "loop"
    /\ MustWait
    /\ Ended(jobs.running) = <<>>
    /\ jobs' = [jobs EXCEPT !.pc = "wait",
                            !.waiting = Head(jobs.running),
                            !.running = Tail(jobs.running)]
    /\ UNCHANGED <<cacheVars, parse, unitVars>>

\* waitForAnyProcess: out.wait() returns
EndWait ==
    /\ jobs.pc = "wait"
    /\ jobs.status[jobs.waiting] = "exited"
    /\ jobs' = Reaped(jobs.waiting, jobs.running)
    /\ UNCHANGED <<cacheVars, parse, unitVars>>

\* runJobs: both loops are over, "return 0"
Finish ==
    /\ jobs.pc = "loop"
    /\ jobs.commands = <<>>
    /\ jobs.running = <<>>
    /\ jobs' = [jobs EXCEPT !.pc = "done", !.result = 0]
    /\ UNCHANGED <<cacheVars, parse, unitVars>>

\* ------------------------------------------------ administrative commands
\* main: -c (clean), -C (clear), -z (reset): "with cache.lock"
StartAdmin(p, op) ==
    /\ proc[p].pc = "idle"
    /\ proc' = StartedBy(p, EnterCacheLock([IdleProc EXCEPT !.op = op], op))
    /\ nops' = nops + 1
    /\ last' = NoLast
    /\ batch' = [batch EXCEPT !.ok = FALSE]
    /\ UNCHANGED <<manifests, matime, artifacts, oatime, mdirs, adirs, stats,
                   cfg, objFile, lock,
                   jobs, parse, unitVars>>

\* allSectionsLocked: list the sections of the next repository
CacheLockList(p) ==
    /\ proc[p].pc = "cacheLock"
    /\ proc[p].todo = <<>>
    /\ proc[p].stage <= Len(CacheLockStages)
    /\ LET n == Normalize(proc[p].stage + 1,
                          SectionLocks(CacheLockStages[proc[p].stage]))
       IN proc' = [proc EXCEPT ![p].stage = n.stage, ![p].todo = n.todo]
    /\ UNCHANGED <<manifests, matime, artifacts, oatime, mdirs, adirs, stats,
                   cfg, objFile, lock, nops, last, batch,
                   jobs, parse, unitVars>>

\* allSectionsLocked / Cache.lock: acquire the next lock
CacheLockAcquire(p) ==
    /\ proc[p].pc = "cacheLock"
    /\ proc[p].todo # <<>>
    /\ lock[Head(proc[p].todo)] = NoProc
    /\ lock' = Acquire(lock, Head(proc[p].todo), p)
    /\ LET n == Normalize(proc[p].stage, Tail(proc[p].todo))
       IN proc' = [proc EXCEPT ![p].stage = n.stage, ![p].todo = n.todo]
    /\ UNCHANGED <<manifests, matime, artifacts, oatime, mdirs, adirs, stats,
                   cfg, objFile, nops, last, batch,
                   jobs, parse, unitVars>>

HoldsCacheLock(p) ==
    /\ proc[p].pc = "cacheLock"
    /\ proc[p].todo = <<>>
    /\ proc[p].stage > Len(CacheLockStages)

\* cleanCache / clearCache under the cache lock, then the locks are released
EvictBody(p) ==
    /\ HoldsCacheLock(p)
    /\ proc[p].task \in {"clean", "clear"}
    /\ LET r == Cache_clean(stats, IF proc[p].task = "clean" THEN cfg ELSE 0,
                            manifests, matime, artifacts, oatime)
       IN /\ stats' = r.stats
          /\ manifests' = r.manifests
          /\ matime' = r.matime
          /\ artifacts' = r.artifacts
          /\ oatime' = r.oatime
          /\ proc' = [proc EXCEPT ![p].pc = "done", ![p].ran = r.ran]
    /\ lock' = ReleaseAll(lock, p)
    /\ UNCHANGED <<mdirs, adirs, cfg, objFile, nops, last, batch,
                   jobs, parse, unitVars>>

\* resetStatistics under the cache lock
ResetBody(p) ==
    /\ HoldsCacheLock(p)
    /\ proc[p].task = "reset"
    /\ stats' = resetCounters(stats)
    /\ proc' = [proc EXCEPT ![p].pc = "done"]
    /\ lock' = ReleaseAll(lock, p)
    /\ UNCHANGED <<manifests, matime, artifacts, oatime, mdirs, adirs, cfg,
                   objFile, nops, last, batch,
                   jobs, parse, unitVars>>

\* the process ends; a later operation starts from scratch
Return(p) ==
    /\ proc[p].pc = "done"
    /\ proc' = [proc EXCEPT ![p] = IdleProc]
    /\ last' = IF /\ proc[p].op = "compile"
                  /\ proc[p].rc = 0
                  /\ objFile[proc[p].src] # NoObject
                  /\ \A q \in Procs \ {p} : ~Active(q)
               THEN [valid |-> TRUE, src |-> proc[p].src, ver |-> proc[p].ver,
                     object |-> objFile[proc[p].src], hits |-> stats.CacheHits,
                     cleanup |-> proc[p].cleanup]
               ELSE NoLast
    /\ UNCHANGED <<manifests, matime, artifacts, oatime, mdirs, adirs, stats,
                   cfg, objFile, lock, nops, batch,
                   jobs, parse, unitVars>>

Step(p) ==
    \/ LockManifest(p) \/ ScanMatch(p) \/ ScanMiss(p) \/ LockArtifact(p)
    \/ HitLockStats(p) \/ HitStats(p) \/ HitCopy(p)
    \/ Compile(p) \/ LockManifest2(p) \/ LockArtifact2(p) \/ LockStats2(p)
    \/ Insert(p) \/ CacheLockList(p) \/ CacheLockAcquire(p)
    \/ EvictBody(p) \/ Return(p)

\* Two concurrent processes on a cache configured with a small maximum size.
Init == InitWith({SmallCacheSize})

Next ==
    \E p \in Procs :
        \/ /\ nops < MaxOps
           /\ \/ \E r \in Requests : StartRequest(p, r[1], r[2])
              \/ \E op \in {"clean", "clear"} : StartAdmin(p, op)
        \/ Step(p)
        \/ HitCrash(p)

Spec == Init /\ [][Next]_vars

\* One process, one operation after the other.
InitSeq == InitWith({SmallCacheSize, SmallCacheSize + 1})

NextSeq ==
    \/ /\ nops < MaxSeqOps
       /\ \/ \E s \in Src, v \in 0..2 : StartRequest("p1", s, v)
          \/ \E op \in {"clean", "clear", "reset"} : StartAdmin("p1", op)
    \/ Step("p1")
    \/ ResetBody("p1")

SpecSeq == InitSeq /\ [][NextSeq]_vars

\* One process compiling one source with an ever new header content, on a
\* cache with the default maximum size.
InitGrow == InitWith({DefaultMaximumCacheSize})

NextGrow ==
    \/ /\ nops < MaxVariants
       /\ StartRequest("p1", "s1", nops + 1)
    \/ LockManifest("p1") \/ ScanMiss("p1") \/ Compile("p1")
    \/ LockManifest2("p1") \/ LockArtifact2("p1") \/ LockStats2("p1")
    \/ Insert("p1") \/ Return("p1")

SpecGrow == InitGrow /\ [][NextGrow]_vars

\* One process compiling one source whose header alternates between a few
\* contents, on a cache with the default maximum size: no eviction pass runs.
InitHeaders == InitWith({DefaultMaximumCacheSize})

NextHeaders ==
    \/ /\ nops < MaxHeaderOps
       /\ \E v \in 1..MaxHeaders : StartRequest("p1", "s1", v)
    \/ LockManifest("p1") \/ ScanMatch("p1") \/ ScanMiss("p1")
    \/ LockArtifact("p1") \/ HitLockStats("p1") \/ HitStats("p1")
    \/ HitCopy("p1") \/ Compile("p1") \/ LockManifest2("p1")
    \/ LockArtifact2("p1") \/ LockStats2("p1") \/ Insert("p1")
    \/ Return("p1")

SpecHeaders == InitHeaders /\ [][NextHeaders]_vars

\* One process: cacheable requests, command lines that analysis rejects and
\* statistics resets, on a cache with the default maximum size.
InitCalls == InitWith({DefaultMaximumCacheSize})

NextCalls ==
    \/ /\ nops < MaxCallOps
       /\ \/ StartRequest("p1", "s1", 1)
          \/ \E error \in AnalysisErrors, v \in {0, 1} :
                StartRejected("p1", error, "s1", v)
          \/ StartAdmin("p1", "reset")
    \/ LockManifest("p1") \/ ScanMatch("p1") \/ ScanMiss("p1")
    \/ LockArtifact("p1") \/ HitLockStats("p1") \/ HitStats("p1")
    \/ HitCopy("p1") \/ Compile("p1") \/ LockManifest2("p1")
    \/ LockArtifact2("p1") \/ LockStats2("p1") \/ Insert("p1")
    \/ RejectLockStats("p1") \/ RejectStats("p1") \/ Forward("p1")
    \/ CacheLockList("p1") \/ CacheLockAcquire("p1") \/ ResetBody("p1")
    \/ Return("p1")

SpecCalls == InitCalls /\ [][NextCalls]_vars

\* One command line with several source files, fanned out to child processes
\* that end with any exit codes at any time.
ExitCodes == {0, 1, 2}

InitJobs == InitWith({DefaultMaximumCacheSize})

NextJobs ==
    \/ \E mpSwitches \in MpSwitches, n \in 2..MaxChildren :
          \E codes \in [1..n -> ExitCodes] : StartJobs(mpSwitches, codes)
    \/ Spawn
    \/ \E c \in 1..MaxChildren : ChildExits(c)
    \/ Poll \/ BeginWait \/ EndWait \/ Finish

SpecJobs == InitJobs /\ [][NextJobs]_vars

\* The command line analyzer on every command line of a few tokens.
InitAnalyze == InitWith({DefaultMaximumCacheSize})

NextAnalyze ==
    \/ /\ parse.pc = "idle"
       /\ \E cmdline \in CmdLines : StartAnalyze(cmdline)
    \/ ParseToken
    \/ Decide

SpecAnalyze == InitAnalyze /\ [][NextAnalyze]_vars

\* splitCommandsFile for every string of up to MaxContent characters
InitTokenize == InitWith({DefaultMaximumCacheSize})

NextTokenize ==
    \/ /\ tokenizer.pc = "idle"
       /\ \E content \in Contents : StartTokenize(content)
    \/ ParseChar
    \/ EndTokenize

SpecTokenize == InitTokenize /\ [][NextTokenize]_vars

\* a manifest file and a dictionary file: written or damaged, then read
InitFiles == InitWith({DefaultMaximumCacheSize})

NextFiles ==
    \/ /\ mfile.pc = "idle"
       /\ \E entries \in FileManifests : WriteManifest(entries)
    \/ \E dict \in FileDicts : SaveDict(dict)
    \/ \E file \in {"manifest", "dict"},
          content \in Damaged \cup {[kind |-> "absent"]} :
             /\ file = "dict" => content.kind # "json"
             /\ Damage(file, content)
    \/ ReadManifest
    \/ OpenDict

SpecFiles == InitFiles /\ [][NextFiles]_vars

\* createManifestEntry for every include list of up to MaxIncludes paths
InitEntry == InitWith({DefaultMaximumCacheSize})

NextEntry ==
    \/ /\ mentry.pc = "idle"
       /\ \E files \in [HeaderPaths -> {1, 2}],
             env \in {NoBaseDir, <<"/", "p">>, <<"/", "p", "/">>},
             includePaths \in IncludeLists :
                MakeEntry(files, env, includePaths)
    \/ ForgetEntry

SpecEntry == InitEntry /\ [][NextEntry]_vars

\* up to MaxBuilds builds of the source tree, each at one of the locations
InitBasedir == InitWith({DefaultMaximumCacheSize})

NextBasedir ==
    \/ \E mode \in {"root", "unset"}, option \in {"none", "I"},
          input \in {"rel", "abs"}, ext \in ExtHeaders :
             Configure(mode, option, input, ext)
    \/ \E loc \in Locations : Build(loc)

SpecBasedir == InitBasedir /\ [][NextBasedir]_vars

\* Two concurrent processes in no-direct mode on a cache of the default size.
InitNoDirect == InitWith({DefaultMaximumCacheSize})

NextNoDirect ==
    \E p \in Procs :
        \/ /\ nops < MaxNoDirectOps
           /\ \E s \in Src, v \in {-1, 0, 1} : StartNoDirect(p, s, v)
        \/ Preprocess(p) \/ NdLockArtifact(p) \/ HitLockStats(p)
        \/ HitStats(p) \/ HitCopy(p) \/ NdCompile(p) \/ LockArtifact2(p)
        \/ LockStats2(p) \/ Insert(p) \/ Return(p)

SpecNoDirect == InitNoDirect /\ [][NextNoDirect]_vars

\* ------------------------------------------------------------- properties
Holds(p, l) == lock[l] = p
HoldsAny(p) == \E l \in Locks : lock[l] = p

RECURSIVE ManifestBytes(_, _)
ManifestBytes(mfs, files) ==
    IF files = <<>> THEN 0
    ELSE ManifestFileSize(mfs[Head(files)]) + ManifestBytes(mfs, Tail(files))

ObjectBytesStored == SumSizes(artifacts, oatime)
BytesStored == ObjectBytesStored + ManifestBytes(manifests, matime)

\* the lock a process is waiting for or about to take
Wanted(p) ==
    LET pc == proc[p].pc
    IN IF pc \in {"lockManifest", "lockManifest2"}
       THEN {ManifestLock(getManifestHash(proc[p].src))}
       ELSE IF pc \in {"lockArtifact", "lockArtifact2"}
       THEN {ArtifactLock(proc[p].cachekey)}
       ELSE IF pc \in {"hitLockStats", "lockStats2"} THEN {StatsLock}
       ELSE IF pc = "cacheLock" /\ proc[p].todo # <<>> THEN {Head(proc[p].todo)}
       ELSE {}

\* p waits for a lock that q owns
BlockedBy(p, q) == p # q /\ \E l \in Wanted(p) : lock[l] = q

\* C1: when a request has exited 0 and produced object file O, running no
\* eviction pass, and nothing else has run since, an identical request
\* returns 0 without invoking the real compiler, increments CacheHits by one
\* and writes an object file identical to O.
C1_SecondRequestHits ==
    \A p \in Procs :
        (/\ proc[p].pc = "done"
         /\ proc[p].op = "compile"
         /\ proc[p].prior.valid
         /\ ~proc[p].prior.cleanup)
        => /\ proc[p].rc = 0
           /\ ~proc[p].invoked
           /\ stats.CacheHits = proc[p].prior.hits + 1
           /\ objFile[proc[p].src] = proc[p].prior.object

\* C2: a compile request that the real compiler would complete with exit
\* code 0 exits 0 through the wrapper, in every reachable cache state.
C2_NeverFailsABuild ==
    \A p \in Procs :
        (/\ proc[p].pc = "done"
         /\ proc[p].op = "compile"
         /\ CompilerExitCode(proc[p].src, proc[p].ver) = 0)
        => proc[p].rc = 0

\* C3: when the requests started since the cache was last quiescent were for
\* pairwise distinct sources and ran without administrative commands, then
\* once all have finished CacheHits + CacheMisses has grown by their number.
C3_NoStatisticsUpdateLost ==
    (Quiescent /\ batch.ok)
    => stats.CacheHits + stats.CacheMisses = batch.base + batch.n

\* C4: no set of processes waits on each other's cache locks in a cycle.
C4_NoLockCycle ==
    ~ \E C \in SUBSET Procs :
        /\ C # {}
        /\ \A p \in C : \E q \in C : BlockedBy(p, q)

\* C4 witness: a request that owns a shard lock blocks a process that is
\* taking the composite lock and already owns another lock.
C4_Witness ==
    \E p \in Procs, q \in Procs :
        /\ BlockedBy(p, q)
        /\ proc[p].pc = "cacheLock"
        /\ HoldsAny(p)
        /\ proc[q].op = "compile"
        /\ proc[q].pc # "cacheLock"

\* the process that takes the step changes its position, and owned the lock
OwnedByActor(l) ==
    \E p \in Procs : proc'[p].pc # proc[p].pc /\ lock[l] = p

ChangedAt(f, g, x) ==
    \/ (x \in DOMAIN f) # (x \in DOMAIN g)
    \/ x \in DOMAIN f /\ x \in DOMAIN g /\ f[x] # g[x]

\* C5: every creation, rewrite or deletion of a manifest file, an artifact
\* entry or the statistics file is made by a process that owns the lock
\* guarding it.
C5_MutationsUnderLock ==
    [][/\ \A h \in Src :
            ChangedAt(manifests, manifests', h) => OwnedByActor(ManifestLock(h))
       /\ \A k \in DOMAIN artifacts \cup DOMAIN artifacts' :
            ChangedAt(artifacts, artifacts', k) => OwnedByActor(ArtifactLock(k))
       /\ stats' # stats => OwnedByActor(StatsLock)]_vars

\* C6: whenever no process owns the statistics lock, CacheEntries is the
\* number of artifact entry directories on disk.
C6_EntriesMatchDirectories ==
    lock[StatsLock] = NoProc
    => stats.CacheEntries = Cardinality(DOMAIN artifacts)

\* C6 witness: a clear has run next to a compile whose artifact it removed;
\* the statistics lock is free.
C6_Witness ==
    \E p \in Procs, q \in Procs :
        /\ proc[p].pc = "done" /\ proc[p].op = "clear" /\ proc[p].ran
        /\ proc[q].pc = "done" /\ proc[q].op = "compile"
        /\ proc[q].invoked /\ proc[q].rc = 0
        /\ ~hasEntry(proc[q].cachekey)
        /\ lock[StatsLock] = NoProc

\* C7: whenever no process is inside a cache critical section, CacheSize is
\* the sum of the sizes of the object files in the artifact store.
C7_SizeIsObjectBytes ==
    (\A p \in Procs : ~HoldsAny(p)) => stats.CacheSize = ObjectBytesStored

\* C8: every persisted manifest holds at most MAX_MANIFEST_HASHES entries.
C8_ManifestBounded ==
    \A h \in DOMAIN manifests : Len(manifests[h]) <= MAX_MANIFEST_HASHES

\* the step in which p runs Cache.clean, and the target it is given
CleanReturns(p) ==
    /\ HoldsCacheLock(p)
    /\ proc[p].task \in {"clean", "clear"}
    /\ proc'[p].pc = "done"
CleanTarget(p) == IF proc[p].task = "clean" THEN cfg ELSE 0

\* C9 as claimed: after Cache.clean(target) returns, the bytes held are at
\* most 0.9 x target or the cache holds at most one object.
C9_CleanReachesTarget ==
    [][\A p \in Procs :
          CleanReturns(p)
          => \/ WithinShare(BytesStored', 90, CleanTarget(p))
             \/ Cardinality(DOMAIN artifacts') <= 1]_vars

\* C9 amended: after Cache.clean(target) returns, if the recorded CacheSize
\* was at least target when it was called, the manifest and object bytes held
\* are at most 0.9 x target or the cache holds at most one object.
C9_CleanReachesTargetWhenOver ==
    [][\A p \in Procs :
          (CleanReturns(p) /\ stats.CacheSize >= CleanTarget(p))
          => \/ WithinShare(BytesStored', 90, CleanTarget(p))
             \/ Cardinality(DOMAIN artifacts') <= 1]_vars

\* C9 witness: a clean to the configured size has evicted and has left an
\* object in the cache.
C9_Witness ==
    \E p \in Procs :
        /\ proc[p].pc = "done" /\ proc[p].task = "clean" /\ proc[p].ran
        /\ Cardinality(DOMAIN artifacts) >= 1
        /\ WithinShare(BytesStored, 90, cfg)

\* C10: a process that owns an artifact shard lock and has seen the entry
\* directory of its key finds the entry for as long as it owns the lock.
C10_EntryStaysWhileLocked ==
    \A p \in Procs :
        (/\ proc[p].pc \in {"hitLockStats", "hitStats", "hitCopy"}
         /\ Holds(p, ArtifactLock(proc[p].cachekey)))
        => hasEntry(proc[p].cachekey)

\* C11: without eviction, a request is served from the cache exactly when its
\* header content was compiled before: a request served from the cache gets
\* the object of its own header content, and once the requests have finished
\* every request was counted as a hit or a miss, with one miss and one entry
\* for each distinct header content.
C11_OneMissPerHeaderVariant ==
    /\ \A p \in Procs :
          (proc[p].pc = "done" /\ proc[p].op = "compile" /\ ~proc[p].invoked)
          => /\ proc[p].rc = 0
             /\ objFile[proc[p].src] = ObjectCode(proc[p].src, proc[p].ver)
    /\ Quiescent
       => /\ stats.CacheHits + stats.CacheMisses = nops
          /\ stats.CacheMisses = Cardinality(DOMAIN artifacts)
          /\ stats.CacheEntries = Cardinality(DOMAIN artifacts)
          /\ \A k \in DOMAIN artifacts :
                artifacts[k].object = ObjectCode(k[1], k[2])

\* C11 witness: the header went 1, 2, 1, 2; the counters are hits 2,
\* misses 2, entries 2.
C11_Witness ==
    /\ Quiescent
    /\ nops = 4
    /\ "s1" \in DOMAIN manifests
    /\ Len(manifests["s1"]) = 2
    /\ manifests["s1"][1].includesContentHash = getIncludesContentHashForFiles(2)
    /\ manifests["s1"][2].includesContentHash = getIncludesContentHashForFiles(1)
    /\ stats.CacheHits = 2 /\ stats.CacheMisses = 2 /\ stats.CacheEntries = 2

\* a step of a request whose real compiler run has exited non-zero
FailedStep(p) ==
    /\ proc[p].op = "compile"
    /\ proc[p].invoked
    /\ proc[p].rc # 0
    /\ proc'[p].pc # proc[p].pc
    /\ proc[p].pc # "done"

\* C12: a request whose real compiler run exits non-zero returns that exit
\* code, stores no artifact and no manifest entry, leaves CacheEntries,
\* CacheSize and CacheHits unchanged and increments CacheMisses by one, in
\* the step in which it finishes.
C12_FailedCompileCountsOneMiss ==
    [][\A p \in Procs :
          FailedStep(p)
          => /\ artifacts' = artifacts
             /\ manifests' = manifests
             /\ stats'.CacheEntries = stats.CacheEntries
             /\ stats'.CacheSize = stats.CacheSize
             /\ stats'.CacheHits = stats.CacheHits
             /\ IF proc'[p].pc = "done"
                THEN /\ stats'.CacheMisses = stats.CacheMisses + 1
                     /\ proc'[p].rc = CompilerExitCode(proc[p].src, proc[p].ver)
                     /\ ~proc'[p].cleanup
                ELSE stats'.CacheMisses = stats.CacheMisses]_vars

\* C12 witness: after a successful compile of the source, a request for it
\* has failed in the compiler and has finished.
C12_Witness ==
    \E p \in Procs :
        /\ proc[p].pc = "done" /\ proc[p].op = "compile"
        /\ proc[p].invoked /\ proc[p].rc # 0
        /\ proc[p].reason = "HeaderChangedMiss"
        /\ getManifestHash(proc[p].src) \in DOMAIN manifests
        /\ stats.CacheMisses = stats.CacheEntries + 1

\* the counter the given analysis error is to be counted in
CallCounter ==
    [InvalidArgumentError |-> "CallsWithInvalidArgument",
     NoSourceFileError |-> "CallsWithoutSourceFile",
     MultipleSourceFilesComplexError |-> "CallsWithMultipleSourceFiles",
     CalledWithPchError |-> "CallsWithPch",
     CalledForLinkError |-> "CallsForLinking",
     ExternalDebugInfoError |-> "CallsForExternalDebugInfo",
     CalledForPreprocessingError |-> "CallsForPreprocessing"]

\* a step of a request whose command line analysis has rejected
RejectedStep(p) ==
    /\ proc[p].op = "rejected"
    /\ proc[p].pc \notin {"idle", "done"}
    /\ proc'[p].pc # proc[p].pc

\* C13: a request whose command line analysis rejects changes no manifest
\* and no artifact; the one change it makes to the statistics is to add one
\* to the call counter of its analysis error; it invokes the real compiler
\* once, in its last step, with the original arguments, and returns the
\* compiler's exit code.
C13_RejectedCallCountedAndForwarded ==
    [][\A p \in Procs :
          RejectedStep(p)
          => /\ manifests' = manifests /\ artifacts' = artifacts
             /\ IF proc[p].pc = "rejectStats"
                THEN \A k \in DOMAIN stats :
                        stats'[k] = IF k = CallCounter[proc[p].error]
                                    THEN stats[k] + 1 ELSE stats[k]
                ELSE stats' = stats
             /\ proc'[p].invoked = (proc'[p].pc = "done")
             /\ ~proc[p].invoked
             /\ proc'[p].pc = "done"
                => /\ proc[p].pc = "forward"
                   /\ proc'[p].forwarded = "argv"
                   /\ proc'[p].rc = CompilerExitCode(proc[p].src, proc[p].ver)]_vars

\* C13 witness: a command line called for linking was counted and forwarded
\* while the cache held an entry.
C13_Witness ==
    \E p \in Procs :
        /\ proc[p].pc = "done" /\ proc[p].op = "rejected"
        /\ proc[p].error = "CalledForLinkError"
        /\ proc[p].invoked
        /\ stats.CallsForLinking = 1
        /\ stats.CacheEntries = 1

\* the step in which p runs resetStatistics
ResetReturns(p) ==
    /\ HoldsCacheLock(p)
    /\ proc[p].task = "reset"
    /\ proc'[p].pc = "done"

\* C14: resetting the statistics sets every resettable counter to 0 and
\* leaves CacheEntries, CacheSize, the configuration, the manifests and the
\* artifacts unchanged.
C14_ResetZeroesResettableOnly ==
    [][\A p \in Procs :
          ResetReturns(p)
          => /\ \A k \in RESETTABLE_KEYS : stats'[k] = 0
             /\ \A k \in NON_RESETTABLE_KEYS : stats'[k] = stats[k]
             /\ DOMAIN stats' = RESETTABLE_KEYS \cup NON_RESETTABLE_KEYS
             /\ cfg' = cfg
             /\ manifests' = manifests /\ artifacts' = artifacts]_vars

\* C14 witness: a reset has run as the third operation or later, on a cache
\* that holds an entry whose miss had been counted.
C14_Witness ==
    \E p \in Procs :
        /\ proc[p].pc = "done" /\ proc[p].op = "reset"
        /\ nops >= 3
        /\ stats.CacheEntries = 1 /\ stats.CacheSize = ObjectBytes
        /\ stats.CacheMisses = 0

\* the step in which p runs clearCache
ClearReturns(p) ==
    /\ HoldsCacheLock(p)
    /\ proc[p].task = "clear"
    /\ proc'[p].pc = "done"

\* C15: clearing the cache leaves CacheEntries = 0, CacheSize = 0 and no
\* artifact, leaves every other counter as it was, and a second clear right
\* after it changes nothing.
C15_ClearEmptiesAndIsIdempotent ==
    [][\A p \in Procs :
          ClearReturns(p)
          => /\ stats'.CacheEntries = 0 /\ stats'.CacheSize = 0
             /\ DOMAIN artifacts' = {} /\ oatime' = <<>>
             /\ \A k \in RESETTABLE_KEYS : stats'[k] = stats[k]
             /\ LET again == Cache_clean(stats', 0, manifests', matime',
                                         artifacts', oatime')
                IN /\ again.stats = stats'
                   /\ again.manifests = manifests'
                   /\ again.artifacts = artifacts']_vars

\* C15 witness: the one entry ever stored, whose miss is counted, is gone
\* after a clear.
C15_Witness ==
    \E p \in Procs :
        /\ proc[p].pc = "done" /\ proc[p].op = "clear" /\ proc[p].ran
        /\ adirs # {}
        /\ stats.CacheMisses = 1
        /\ stats.CacheEntries = 0

\* the children running at the moment
RunningChildren == {c \in DOMAIN jobs.status : jobs.status[c] = "running"}

\* C16: during a fan-out no more children run at a time than the job count
\* of the command line.
C16_AtMostJobCountChildren ==
    jobs.pc # "idle" => Cardinality(RunningChildren) <= jobs.j

\* C17: the fan-out returns 0 exactly when every child was launched and has
\* exited 0; otherwise it returns the exit code of the first child it has
\* seen exit non-zero.
C17_FirstNonZeroExitCode ==
    jobs.pc = "done"
    => LET n == Len(jobs.reaped)
           allOk == \A c \in DOMAIN jobs.codes :
                       jobs.status[c] = "exited" /\ jobs.codes[c] = 0
       IN /\ (jobs.result = 0) = allOk
          /\ jobs.result # 0
             => /\ n >= 1
                /\ jobs.result = jobs.codes[jobs.reaped[n]]
                /\ \A i \in 1..(n - 1) : jobs.codes[jobs.reaped[i]] = 0

\* C17 witness: the fan-out has returned the exit code of the second child
\* it waited for, the first having exited 0.
C17_Witness ==
    /\ jobs.pc = "done"
    /\ jobs.result = 2
    /\ Len(jobs.reaped) = 2
    /\ jobs.codes[jobs.reaped[1]] = 0
    /\ Len(jobs.codes) = 3

\* a token that starts with '/' or '-'
IsFlag(token) ==
    startswith(token, <<"/">>, 0) \/ startswith(token, <<"-">>, 0)

\* the command line holds flags only, none of them /Tc or /Tp
NoInputFile(cmdline) ==
    \A k \in 1..Len(cmdline) :
        /\ IsFlag(cmdline[k])
        /\ ~startswith(cmdline[k], <<"T", "c">>, 1)
        /\ ~startswith(cmdline[k], <<"T", "p">>, 1)

\* the input files of the analysed command line: the plain tokens, then
\* the values of /Tp and /Tc
AllInputFiles ==
    LET values(name) == IF name \in DOMAIN parse.arguments
                        THEN parse.arguments[name] ELSE <<>>
    IN parse.inputFiles \o values(<<"T", "p">>) \o values(<<"T", "c">>)

\* the conditions of the decision, in their order
DecisionOrder ==
    <<"CalledForPreprocessingError", "ExternalDebugInfoError",
      "CalledWithPchError", "CalledForLinkError",
      "MultipleSourceFilesComplexError">>

Applies(condition) ==
    LET given(name) == name \in DOMAIN parse.arguments
    IN CASE condition = "CalledForPreprocessingError" ->
               given(<<"E">>) \/ given(<<"E", "P">>) \/ given(<<"P">>)
         [] condition = "ExternalDebugInfoError" -> given(<<"Z", "i">>)
         [] condition = "CalledWithPchError" ->
               given(<<"Y", "c">>) \/ given(<<"Y", "u">>)
         [] condition = "CalledForLinkError" ->
               given(<<"l", "i", "n", "k">>) \/ ~given(<<"c">>)
         [] condition = "MultipleSourceFilesComplexError" ->
               /\ Len(AllInputFiles) > 1
               /\ given(<<"T", "c">>) \/ given(<<"T", "p">>)

\* C18: analyze reports NoSourceFile whenever the command line holds no
\* input file, whatever else is wrong with it; with an input file it reports
\* the first condition of the order that applies, and succeeds if none does.
C18_NoSourceFileFirst ==
    parse.pc = "done"
    => /\ NoInputFile(parse.cmdline) => parse.outcome = "NoSourceFileError"
       /\ parse.outcome \in {"ok"} \cup (AnalysisErrors \ {"InvalidArgumentError"})
          => LET hits == {k \in 1..Len(DecisionOrder) : Applies(DecisionOrder[k])}
             IN parse.outcome =
                  IF Len(AllInputFiles) = 0 THEN "NoSourceFileError"
                  ELSE IF hits = {} THEN "ok"
                  ELSE DecisionOrder[CHOOSE k \in hits : \A m \in hits : k <= m]

\* C19: analyze returns its result or raises one of the AnalysisError
\* variants, for every argument vector.
C19_OnlyAnalysisErrors ==
    parse.pc = "done" => parse.outcome \in {"ok"} \cup AnalysisErrors

\* C20: one round of the classification: the longest name of the table that
\* the token holds decides; T1 with an empty value raises InvalidArgument, T2
\* takes the rest of its token and the round ends after this token, T3 takes
\* the rest of its token or, if that is empty, the following token, which is
\* no input file then; a token that starts with none of '/', '-' and '@' is
\* an input file.
C20_ClassifiesByShape ==
    [][(parse.pc = "scan" /\ parse.i < Len(parse.cmdline) /\ parse' # parse)
       => LET cmdline == parse.cmdline
              i == parse.i
              token == cmdline[i + 1]
              names == {n \in argumentsWithParameter : startswith(token, n, 1)}
          IN /\ (IsFlag(token) /\ names # {})
                => LET name == CHOOSE n \in names :
                                  \A m \in names : Len(m) <= Len(n)
                       rest == SliceFrom(token, Len(name) + 1)
                       Takes(value, next) ==
                           /\ parse'.arguments =
                                  AppendArgument(parse.arguments, name, value)
                           /\ parse'.i = next
                           /\ parse'.inputFiles = parse.inputFiles
                           /\ parse'.pc = "scan"
                   IN /\ (name \in ArgumentT1 /\ rest = <<>>)
                         => parse'.outcome = "InvalidArgumentError"
                      /\ (name \in ArgumentT1 /\ rest # <<>>) => Takes(rest, i + 1)
                      /\ name \in ArgumentT2 => Takes(rest, i + 1)
                      /\ (name \in ArgumentT3 /\ rest # <<>>) => Takes(rest, i + 1)
                      /\ (name \in ArgumentT3 /\ rest = <<>> /\ i + 1 < Len(cmdline))
                         => Takes(cmdline[i + 2], i + 2)
             /\ (~IsFlag(token) /\ ~startswith(token, <<"@">>, 0))
                => /\ parse'.inputFiles = Append(parse.inputFiles, token)
                   /\ parse'.arguments = parse.arguments
                   /\ parse'.i = i + 1
                   /\ parse'.pc = "scan"]_vars

\* the tokenizer is inside a quoted region
InQuotes(t) == t.parser = "quotedState"

C22_ManifestRoundTrip ==
    (mfile.pc = "read" /\ mfile.file = "manifest")
    => /\ mfile.result.error = "none"
       /\ mfile.result.present
       /\ mfile.result.entries = mfile.written

\* a manifest of two different entries has been written and read
C22_Witness ==
    /\ mfile.pc = "read" /\ mfile.file = "manifest"
    /\ Len(mfile.written) = 2
    /\ mfile.written[1] # mfile.written[2]
    /\ mfile.written[1][1] = <<"b.h", "a.h">>
    /\ mfile.result.entries = mfile.written

\* C23: reading a file that does not hold what the program wrote raises no
\* error: getManifest gives no manifest, and the statistics and the
\* configuration open with an empty dictionary.
C23_DamageIsAbsence ==
    mfile.pc = "readDamaged"
    => /\ mfile.result.error = "none"
       /\ mfile.file = "manifest" => ~mfile.result.present
       /\ mfile.file = "dict" => DOMAIN mfile.result.dict = {}

\* C24: the entry made for a list of include paths is the entry made for
\* every other list of the same headers, whatever its order and however
\* often it names a header.
C24_EntryDependsOnHeaderSet ==
    mentry.pc = "done"
    => \A other \in IncludeLists :
          SeqToSet(other) = SeqToSet(mentry.includePaths)
          => createManifestEntryForPaths("m", other, mentry.files,
                                         mentry.baseDir) = mentry.made

\* an entry was made for a list that is not sorted and names a header twice
C24_Witness ==
    /\ mentry.pc = "done"
    /\ mentry.includePaths =
          <<<<"/", "s", "/", "h">>, <<"/", "p", "/", "g">>, <<"/", "s", "/", "h">>>>
    /\ mentry.files[<<"/", "s", "/", "h">>] # mentry.files[<<"/", "p", "/", "g">>]
    /\ mentry.made[1] = <<<<"?", "/", "g">>, <<"/", "s", "/", "h">>>>

\* C25: the first two builds, at different locations.  With the base
\* directory set to the root of each location they have the same manifest
\* hash and the same stored include paths and the second build is a hit (one
\* hit, one miss); with no base directory set the second build is a miss (no
\* hit, two misses).
C25_BasedirMakesLocationsEqual ==
    (Len(build.log) = 2 /\ build.log[1].loc # build.log[2].loc)
    => IF build.mode = "root"
       THEN /\ build.log[1].manifestHash = build.log[2].manifestHash
            /\ build.log[1].includeFiles = build.log[2].includeFiles
            /\ build.log[2].hit
            /\ build.hits = 1 /\ build.misses = 1
       ELSE /\ ~build.log[2].hit
            /\ build.hits = 0 /\ build.misses = 2

\* the step of a no-direct request whose preprocessor run fails
PreprocessorFailedStep(p) ==
    /\ proc[p].op = "compile" /\ proc[p].mode = "nodirect"
    /\ PreprocessorExitCode(proc[p].src, proc[p].ver) # 0
    /\ proc[p].pc # "idle"
    /\ proc'[p] # proc[p]

\* C26: a no-direct request whose preprocessor run exits non-zero ends at
\* once with that exit code: the compile step is not invoked, and no
\* statistics counter, manifest, artifact or object file changes in any of
\* its steps.
C26_PreprocessorFailureTouchesNothing ==
    [][\A p \in Procs :
          PreprocessorFailedStep(p)
          => /\ stats' = stats
             /\ manifests' = manifests
             /\ artifacts' = artifacts
             /\ objFile' = objFile
             /\ ~proc[p].invoked
             /\ \/ /\ proc[p].pc = "preprocess"
                   /\ proc'[p].pc = "done"
                   /\ proc'[p].rc = PreprocessorExitCode(proc[p].src, proc[p].ver)
                   /\ ~proc'[p].invoked
                \/ /\ proc[p].pc = "done"
                   /\ proc'[p].pc = "idle"]_vars

\* a no-direct request has ended in the preprocessor while the cache holds
\* an artifact of an earlier request
C26_Witness ==
    \E p \in Procs :
        /\ proc[p].pc = "done" /\ proc[p].mode = "nodirect"
        /\ proc[p].rc = 2 /\ ~proc[p].invoked /\ proc[p].ver = -1
        /\ stats.CacheMisses = 1 /\ stats.CacheEntries = 1
        /\ computeKeyNodirect(proc[p].src, 1) \in DOMAIN artifacts

\* the step in which a direct-mode request that compiled with exit code 0
\* and has its object file leaves ensureArtifactsExist
MissStoredStep(p) ==
    /\ proc[p].op = "compile" /\ proc[p].mode = "direct"
    /\ proc[p].invoked /\ proc[p].rc = 0
    /\ objFile[proc[p].src] # NoObject
    /\ proc[p].pc \in {"lockArtifact2", "insert"}
    /\ proc'[p].pc \notin {"lockArtifact2", "lockStats2", "insert"}

\* C27: when a direct-mode miss that compiled with exit code 0 and has its
\* object file leaves ensureArtifactsExist, the manifest of its manifest hash
\* exists and has an entry for the header content the request saw, an
\* artifact is stored under the key of that entry, and an entry that was
\* added is the first one.
C27_MissLeavesUsableEntry ==
    [][\A p \in Procs :
          MissStoredStep(p)
          => LET h == getManifestHash(proc[p].src)
                 want == createManifestEntry(h, proc[p].ver)
             IN /\ h \in DOMAIN manifests'
                /\ \E i \in 1..Len(manifests'[h]) : manifests'[h][i] = want
                /\ want.objectHash \in DOMAIN artifacts'
                /\ (h \notin DOMAIN manifests \/ manifests'[h] # manifests[h])
                   => manifests'[h][1] = want]_vars

\* the step in which a request that found a matching manifest entry without
\* its artifact registers its miss
EvictedMissStep(p) ==
    /\ proc[p].op = "compile" /\ proc[p].mode = "direct"
    /\ proc[p].matched
    /\ proc[p].pc = "insert"
    /\ proc'[p].pc # "insert"

\* C28: a request whose manifest entry matched while the artifact was gone
\* is counted as an evicted miss: EvictedMisses and CacheMisses grow by one,
\* HeaderChangedMisses and SourceChangedMisses stay; after a successful
\* compile the artifact is stored under the key of the entry.
C28_EvictedMissCounted ==
    [][\A p \in Procs :
          EvictedMissStep(p)
          => /\ stats'.EvictedMisses = stats.EvictedMisses + 1
             /\ stats'.CacheMisses = stats.CacheMisses + 1
             /\ stats'.HeaderChangedMisses = stats.HeaderChangedMisses
             /\ stats'.SourceChangedMisses = stats.SourceChangedMisses
             /\ (proc[p].rc = 0 /\ objFile[proc[p].src] # NoObject)
                => /\ proc[p].cachekey \in DOMAIN artifacts'
                   /\ proc[p].cachekey =
                        createManifestEntry(getManifestHash(proc[p].src),
                                            proc[p].ver).objectHash]_vars

\* the step in which a direct-mode request that has run the compiler leaves
\* ensureArtifactsExist
MissEndStep(p) ==
    /\ proc[p].op = "compile" /\ proc[p].mode = "direct"
    /\ proc[p].invoked
    /\ proc[p].pc \in {"lockArtifact2", "insert"}
    /\ proc'[p].pc \notin {"lockArtifact2", "lockStats2", "insert"}

\* C29: a direct-mode miss is counted in SourceChangedMisses exactly when
\* the request found no manifest for its manifest hash, and in
\* HeaderChangedMisses exactly when it found a manifest none of whose
\* entries matched the current header contents.
C29_MissSubClass ==
    [][\A p \in Procs :
          MissEndStep(p)
          => /\ (stats'.SourceChangedMisses = stats.SourceChangedMisses + 1)
                <=> ~proc[p].hasManifest
             /\ (stats'.HeaderChangedMisses = stats.HeaderChangedMisses + 1)
                <=> (proc[p].hasManifest /\ ~proc[p].matched)
             /\ stats'.SourceChangedMisses
                    \in {stats.SourceChangedMisses,
                         stats.SourceChangedMisses + 1}
             /\ stats'.HeaderChangedMisses
                    \in {stats.HeaderChangedMisses,
                         stats.HeaderChangedMisses + 1}]_vars

\* the one step of a compile request that settles its accounting:
\* processCacheHit's registerCacheHit, or the request leaving
\* ensureArtifactsExist
AccountingStep(p) ==
    /\ proc[p].op = "compile"
    /\ \/ proc[p].pc = "hitStats" /\ proc'[p].pc # "hitStats"
       \/ /\ proc[p].pc \in {"lockArtifact2", "insert"}
          /\ proc'[p].pc \notin {"lockArtifact2", "lockStats2", "insert"}

\* C30: a compile request increments exactly one of CacheHits and CacheMisses
\* by exactly one: its accounting step adds one to one of the two counters,
\* and no other step of the request changes either of them.
C30_OneHitOrOneMiss ==
    [][\A p \in Procs :
          (proc[p].op = "compile" /\ proc'[p] # proc[p])
          => IF AccountingStep(p)
             THEN \/ /\ stats'.CacheHits = stats.CacheHits + 1
                     /\ stats'.CacheMisses = stats.CacheMisses
                  \/ /\ stats'.CacheHits = stats.CacheHits
                     /\ stats'.CacheMisses = stats.CacheMisses + 1
             ELSE /\ stats'.CacheHits = stats.CacheHits
                  /\ stats'.CacheMisses = stats.CacheMisses]_vars

\* the step in which a direct-mode request that matched no entry stores its
\* artifact and adds its manifest entry
AddManifestStep(p) ==
    /\ proc[p].op = "compile" /\ proc[p].mode = "direct"
    /\ proc[p].pc = "insert" /\ proc'[p].pc # "insert"
    /\ ~proc[p].matched
    /\ proc[p].rc = 0 /\ objFile[proc[p].src] # NoObject

CompiledEndStep(p) ==
    /\ proc[p].op = "compile"
    /\ proc[p].invoked
    /\ proc[p].rc = 0 /\ objFile[proc[p].src] # NoObject
    /\ proc[p].pc \in {"lockArtifact2", "insert"}
    /\ proc'[p].pc \notin {"lockArtifact2", "lockStats2", "insert"}

\* C32: every request that compiled successfully performs an insertion when
\* it leaves ensureArtifactsExist, also when another request stored the same
\* key in the meantime: it writes the entry of its key (setEntry) with the
\* object it compiled, and returns the compiler's exit code.
C32_SecondInsertionOverwrites ==
    [][\A p \in Procs :
          CompiledEndStep(p)
          => /\ proc[p].pc = "insert"
             /\ proc[p].cachekey \in DOMAIN artifacts'
             /\ artifacts'[proc[p].cachekey].object = objFile[proc[p].src]
             /\ proc'[p].rc = CompilerExitCode(proc[p].src, proc[p].ver)]_vars

\* C32 (amended): a request that compiled successfully returns the
\* compiler's exit code and leaves an entry under its key; if the entry was
\* already there (a concurrent request with the same key stored it first),
\* the request stores nothing: the artifacts, their access order and the
\* counted entries and bytes stay as they are; otherwise it stores the
\* object it compiled.
C32_SecondFindsEntry ==
    [][\A p \in Procs :
          CompiledEndStep(p)
          => LET k == proc[p].cachekey
             IN /\ proc'[p].rc = CompilerExitCode(proc[p].src, proc[p].ver)
                /\ k \in DOMAIN artifacts'
                /\ IF k \in DOMAIN artifacts
                   THEN /\ proc[p].pc = "lockArtifact2"
                        /\ artifacts' = artifacts
                        /\ oatime' = oatime
                        /\ stats'.CacheEntries = stats.CacheEntries
                        /\ stats'.CacheSize = stats.CacheSize
                   ELSE /\ proc[p].pc = "insert"
                        /\ artifacts'[k].object = objFile[proc[p].src]
                        /\ stats'.CacheEntries = stats.CacheEntries + 1]_vars

\* C32 witness: two requests with the same key both ran the compiler and
\* both have returned; one entry exists for the key and it was counted once.
C32_Witness ==
    \E p, q \in Procs :
        /\ p # q
        /\ proc[p].op = "compile" /\ proc[q].op = "compile"
        /\ proc[p].src = proc[q].src /\ proc[p].ver = proc[q].ver
        /\ proc[p].invoked /\ proc[q].invoked
        /\ proc[p].rc = 0 /\ proc[q].rc = 0
        /\ proc[p].pc = "done" /\ proc[q].pc = "done"
        /\ proc[p].cachekey = proc[q].cachekey
        /\ proc[p].cachekey \in DOMAIN artifacts
        /\ stats.CacheEntries = 1

\* ------------------------------------------------------- lock timeouts
\* CacheLock.acquire: WaitForSingleObject returns WAIT_TIMEOUT because
\* another process held the mutex for timeoutMs; CacheLockException leaves
\* the enclosing scopes. Every "with" scope entered releases its lock; in
\* allSectionsLocked the acquiring loop stands before the "try", so the
\* section locks this call had taken so far are not released by it.
LockTimeout(p) ==
    /\ \E l \in Wanted(p) : lock[l] \notin {NoProc, p}
    /\ LET kind == IF proc[p].pc = "cacheLock" THEN Head(proc[p].todo)[1]
                   ELSE "S"
       IN lock' = [l \in Locks |->
                     IF lock[l] = p /\ ~(kind \in {"M", "A"} /\ l[1] = kind)
                     THEN NoProc ELSE lock[l]]
    /\ proc' = [proc EXCEPT ![p].pc = "raised", ![p].rc = 1,
                            ![p].crashed = TRUE]
    /\ UNCHANGED <<manifests, matime, artifacts, oatime, mdirs, adirs, stats,
                   cfg, objFile, nops, last, batch,
                   jobs, parse, unitVars>>

\* nothing catches CacheLockException: the process ends with a traceback,
\* and the system marks the mutexes it still owns as abandoned (the next
\* WaitForSingleObject on them returns WAIT_ABANDONED, which acquire accepts)
ProcessExit(p) ==
    /\ proc[p].pc = "raised"
    /\ lock' = ReleaseAll(lock, p)
    /\ proc' = [proc EXCEPT ![p].pc = "done"]
    /\ UNCHANGED <<manifests, matime, artifacts, oatime, mdirs, adirs, stats,
                   cfg, objFile, nops, last, batch,
                   jobs, parse, unitVars>>

\* Two concurrent processes on a cache directory whose shard directories
\* exist, with lock timeouts. The composite lock then covers every section,
\* so no entry disappears under a hit and processCacheHit's assertion holds.
InitLocks == InitDirs({SmallCacheSize}, Shards)

NextLocks ==
    \E p \in Procs :
        \/ /\ nops < MaxLockOps
           /\ \/ \E s \in Src : StartRequest(p, s, 1)
              \/ StartAdmin(p, "clear")
        \/ Step(p)
        \/ LockTimeout(p)
        \/ ProcessExit(p)

SpecLocks == InitLocks /\ [][NextLocks]_vars

\* the positions of a process outside every locked scope
OutsideScopes ==
    {"idle", "lockManifest", "compile", "lockManifest2", "raised", "done"}

\* C33: a process that has left its locked scopes, by a normal return, by
\* an exception inside the scope or by a timeout while acquiring a lock,
\* holds no cache lock.
C33_LocksReleasedOnExit ==
    \A p \in Procs :
        proc[p].pc \in OutsideScopes => \A l \in Locks : lock[l] # p

\* ------------------------------------------------- fan-out command lines
\* the tokens of the command lines the fan-out is tried on: two source
\* files, /c, and /I, which takes the next token as its value
FanoutTokens ==
    {<<"a", ".", "c">>, <<"b", ".", "c">>, <<"/", "c">>, <<"/", "I">>}

FanoutCmdLines == SeqsUpTo(FanoutTokens, MaxFanoutTokens)

\* reinvokePerSourceFile: the child command line for sourceFile, without
\* the interpreter and script that precede it: every argument that equals
\* sourceFile, and every argument that is no element of sourceFiles
childCommandLine(cmdLine, sourceFiles, sourceFile) ==
    LET Kept(arg) == arg = sourceFile \/ arg \notin SeqToSet(sourceFiles)
    IN SelectSeq(cmdLine, Kept)

\* processCompileRequest: "if len(sourceFiles) > 1: reinvokePerSourceFile";
\* the child for the k-th source file is followed: it runs
\* processCompileRequest on its command line and calls analyze
ReinvokeChild(k) ==
    /\ parse.pc = "done"
    /\ parse.outcome = "ok"
    /\ Len(parse.sourceFiles) > 1
    /\ parse.level < MaxLevel
    /\ k \in 1..Len(parse.sourceFiles)
    /\ parse' = [NoParse EXCEPT
                    !.pc = "scan",
                    !.cmdline = childCommandLine(parse.cmdline,
                                                 parse.sourceFiles,
                                                 parse.sourceFiles[k]),
                    !.i = 0,
                    !.level = parse.level + 1]
    /\ UNCHANGED <<cacheVars, jobs, unitVars>>

\* The analyzer on command lines of source files, /c and /I, each accepted
\* multi-source command line followed into its children.
InitFanout == InitWith({DefaultMaximumCacheSize})

NextFanout ==
    \/ /\ parse.pc = "idle"
       /\ \E cmdline \in FanoutCmdLines : StartAnalyze(cmdline)
    \/ ParseToken
    \/ Decide
    \/ \E k \in 1..MaxFanoutTokens : ReinvokeChild(k)

SpecFanout == InitFanout /\ [][NextFanout]_vars

\* C34: the command line of every child of the fan-out holds exactly one
\* input file: its analysis is accepted with one source file, and no child
\* re-invokes itself (the re-invocation ends after one level).
C34_ChildHasOneInputFile ==
    parse.level >= 1
    => /\ parse.level = 1
       /\ parse.pc = "done"
          => parse.outcome = "ok" /\ Len(parse.sourceFiles) = 1

\* C35: a request whose insertion leaves the recorded CacheSize at or above
\* MaximumCacheSize goes on to one eviction pass, which it runs holding the
\* lock Cache.lock composes, and returns after it; a request whose insertion
\* leaves CacheSize below the maximum, or that inserted nothing, returns
\* without entering an eviction pass.
C35_EvictionPassWhenFull ==
    [][\A p \in Procs :
          proc[p].op = "compile"
          => /\ (proc[p].pc = "insert" /\ proc'[p].pc # "insert")
                => IF /\ stats'.CacheEntries = stats.CacheEntries + 1
                      /\ stats'.CacheSize >= cfg
                   THEN proc'[p].pc = "cacheLock" /\ proc'[p].task = "clean"
                   ELSE proc'[p].pc = "done"
             /\ (proc[p].pc # "cacheLock" /\ proc'[p].pc = "cacheLock")
                => proc[p].pc = "insert"
             /\ (proc[p].pc = "cacheLock" /\ proc'[p].pc # "cacheLock")
                => LET r == Cache_clean(stats, cfg, manifests, matime,
                                        artifacts, oatime)
                   IN /\ HoldsCacheLock(p)
                      /\ proc'[p].pc = "done"
                      /\ stats' = r.stats
                      /\ manifests' = r.manifests
                      /\ artifacts' = r.artifacts]_vars

\* C35 witness: a request has returned after an insertion that reached the
\* maximum and after its eviction pass, which removed something.
C35_Witness ==
    \E p \in Procs :
        /\ proc[p].op = "compile"
        /\ proc[p].pc = "done"
        /\ proc[p].cleanup
        /\ proc[p].ran
        /\ stats.CacheSize < cfg

\* the step in which the lookup of a direct-mode request finds the entry
\* that matches the current header contents
MatchStep(p) ==
    /\ proc[p].op = "compile" /\ proc[p].mode = "direct"
    /\ proc[p].pc = "scan"
    /\ proc'[p].pc = "lockArtifact"

EvictKilled(p) ==
    /\ HoldsCacheLock(p)
    /\ proc[p].task \in {"clean", "clear"}
    /\ LET r == Cache_clean(stats, IF proc[p].task = "clean" THEN cfg ELSE 0,
                            manifests, matime, artifacts, oatime)
       IN /\ r.ran
          /\ manifests' = r.manifests
          /\ matime' = r.matime
          /\ artifacts' = r.artifacts
          /\ oatime' = r.oatime
    /\ proc' = [proc EXCEPT ![p].pc = "done", ![p].rc = 1,
                            ![p].crashed = TRUE]
    /\ lock' = ReleaseAll(lock, p)
    /\ UNCHANGED <<mdirs, adirs, stats, cfg, objFile, nops, last, batch,
                   jobs, parse, unitVars>>

\* One process, one operation after the other; an eviction pass may be
\* killed.
InitKill == InitWith({SmallCacheSize})

NextKill ==
    \/ /\ nops < MaxKillOps
       /\ \/ \E v \in 1..2 : StartRequest("p1", "s1", v)
          \/ StartAdmin("p1", "clean")
    \/ Step("p1")
    \/ EvictKilled("p1")

SpecKill == InitKill /\ [][NextKill]_vars

\* the step in which Cache.clean, called with the given target under the
\* cache lock, goes through the two repositories
CleanRanStep(p) ==
    /\ HoldsCacheLock(p)
    /\ proc[p].task \in {"clean", "clear"}
    /\ proc'[p].pc = "done"
    /\ proc'[p].ran

\* C37: artifact eviction deletes the entries that were accessed longest
\* ago and keeps the rest; it deletes nothing when the object bytes are
\* below the budget (0.81 of the target) before it starts, and otherwise no
\* more than needed to get below it; the number of entries it reports is
\* the number of the retained entries.
C37_EvictsOldestUntilBelowBudget ==
    [][\A p \in Procs :
          CleanRanStep(p)
          => LET target == IF proc[p].task = "clean" THEN cfg ELSE 0
                 n == Len(oatime) - Len(oatime')
                 total == SumSizes(artifacts, oatime)
             IN /\ n >= 0
                /\ oatime' = SubSeq(oatime, n + 1, Len(oatime))
                /\ DOMAIN artifacts' = SeqToSet(oatime')
                /\ BelowShare(total, 81, target) => n = 0
                /\ n > 0 => ~BelowShare(total - SumSizes(artifacts,
                                                SubSeq(oatime, 1, n - 1)),
                                        81, target)
                /\ stats'.CacheEntries = Len(oatime')]_vars

\* ------------------------------------------- no-direct normalization
\* _normalizedCommandLine: argsToStrip
argsToStrip ==
    {<<"A", "I">>, <<"C">>, <<"E">>, <<"P">>, <<"F", "I">>, <<"u">>, <<"X">>,
     <<"F", "U">>, <<"D">>, <<"E", "P">>, <<"F", "x">>, <<"U">>, <<"I">>,
     <<"F", "o">>, <<"M", "P">>}

\* _normalizedCommandLine: the arguments that do not start with "/" or "-"
\* followed by one of argsToStrip
normalizedCommandLine(cmdline) ==
    LET Kept(arg) ==
            ~(/\ arg[1] \in {"/", "-"}
              /\ \E strip \in argsToStrip : startswith(SliceFrom(arg, 1), strip, 0))
    IN SelectSeq(cmdline, Kept)

\* the flags of the command lines the normalization is tried on
NormTokens ==
    {<<"/", "E", "H", "a">>, <<"/", "E", "H", "s">>, <<"/", "D", "x">>,
     <<"-", "I", "x">>, <<"/", "O", "x">>}

\* command lines that analyze accepts for one source file: /c, up to
\* MaxNormTokens flags, the source file
NormCmdLines ==
    {<<<<"/", "c">>>> \o flags \o <<<<"a", ".", "c">>>> :
        flags \in SeqsUpTo(NormTokens, MaxNormTokens)}

\* computeKeyNodirect: the command line is normalized for the key
NormalizeCommandLine(cmdline) ==
    /\ parse.pc = "idle"
    /\ parse' = [NoParse EXCEPT !.pc = "normalized", !.cmdline = cmdline,
                                !.normalized = normalizedCommandLine(cmdline)]
    /\ UNCHANGED <<cacheVars, jobs, unitVars>>

\* The normalization on every command line of a few tokens.
InitNormalize == InitWith({DefaultMaximumCacheSize})

NextNormalize == \E cmdline \in NormCmdLines : NormalizeCommandLine(cmdline)

SpecNormalize == InitNormalize /\ [][NextNormalize]_vars

\* the name of the flag an argument gives, as the analyzer names it: the
\* longest name of the table of flags with a parameter, or all that follows
\* the "/" or "-"; an argument that starts with neither gives no flag
flagName(arg) ==
    IF arg = <<>> \/ arg[1] \notin {"/", "-"} THEN <<>>
    ELSE IF getParameterizedArgumentType(arg) # NoArgument
    THEN getParameterizedArgumentType(arg)
    ELSE SliceFrom(arg, 1)

\* the arguments of a command line whose flag name is not stripped
OutsideStripList(cmdline) ==
    LET Outside(arg) == flagName(arg) \notin argsToStrip
    IN SelectSeq(cmdline, Outside)

\* C38: the normalized command line omits exactly the arguments whose flag
\* name is one of argsToStrip and keeps every other argument, so a command
\* line that differs from it in an argument outside that list has another
\* normalized command line, and with it another key for the same
\* preprocessed output.
C38_StripsExactlyTheList ==
    parse.pc = "normalized"
    => /\ parse.normalized = OutsideStripList(parse.cmdline)
       /\ \A other \in NormCmdLines :
             OutsideStripList(other) # OutsideStripList(parse.cmdline)
             => normalizedCommandLine(other) # parse.normalized

-----------------------------------------------------------------------------
\* The CL and _CL_ environment variables: merging them into the command line
\* and the environment the real compiler is started with.

\* deepest process level: 0 is the invoked clcache, 1 a fan-out child
MaxSpawnLevel == 1

\* the environment variables the model tells apart
EnvNames == {"CL", "_CL_", "CLCACHE_NODIRECT"}

\* the values a variable can hold, already split into arguments
EnvValues(name) ==
    CASE name = "CL" -> {<<"/Dx">>, <<"b.c">>}
      [] name = "_CL_" -> {<<"/Dy">>, <<"/Dz">>}
      [] OTHER -> {<<"1">>}

\* os.environ of the invoked clcache
Environs ==
    UNION {{e \in [names -> UNION {EnvValues(n) : n \in EnvNames}] :
               \A n \in names : e[n] \in EnvValues(n)} : names \in SUBSET EnvNames}

\* the arguments clcache is invoked with
SpawnArgs == {<<"/c", "a.c">>, <<"/c", "b.c">>, <<"/c", "a.c", "b.c">>}

\* dict.pop(name): the environment without that variable
pop(environment, name) ==
    [n \in DOMAIN environment \ {name} |-> environment[n]]

\* extentCommandLineFromEnvironment: CL goes before and _CL_ after the
\* arguments; both leave the returned environment
extentCommandLineFromEnvironment(cmdLine, environment) ==
    LET prepend == IF "CL" \in DOMAIN environment THEN environment["CL"] ELSE <<>>
        append == IF "_CL_" \in DOMAIN environment THEN environment["_CL_"] ELSE <<>>
    IN  [cmdLine |-> prepend \o cmdLine \o append,
         environment |-> pop(pop(environment, "CL"), "_CL_")]

\* the input files the analyzer finds on a command line
spawnSourceFiles(cmdLine) ==
    SelectSeq(cmdLine, LAMBDA arg : arg \in {"a.c", "b.c"})

\* invokeRealCompiler: environment = environment or os.environ; a missing or
\* empty environment argument is replaced by os.environ
invokeRealCompilerEnvironment(environment, environ) ==
    IF DOMAIN environment = {} THEN environ ELSE environment

\* main: a clcache process starts and merges CL and _CL_ into its arguments
StartClcache(args, environ) ==
    /\ spawn.pc = "idle"
    /\ LET ext == extentCommandLineFromEnvironment(args, environ)
       IN  spawn' = [spawn EXCEPT !.pc = "merged", !.environ = environ,
                                  !.cmdLine = ext.cmdLine,
                                  !.environment = ext.environment,
                                  !.merged = (DOMAIN environ \cap {"CL", "_CL_"} # {})]
    /\ UNCHANGED <<cacheVars, jobs, parse, tokenizer, mfile, mentry, build>>

\* processDirect: the real compiler is invoked with the merged command line
\* and no environment argument
SpawnDirect ==
    /\ spawn.pc = "merged"
    /\ Len(spawnSourceFiles(spawn.cmdLine)) = 1
    /\ "CLCACHE_NODIRECT" \notin DOMAIN spawn.environ
    /\ spawn' = [spawn EXCEPT !.pc = "spawned", !.childArgs = spawn.cmdLine,
                              !.childEnv = spawn.environ]
    /\ UNCHANGED <<cacheVars, jobs, parse, tokenizer, mfile, mentry, build>>

\* processNoDirect: the real compiler is invoked with the merged command line
\* and the remaining environment
SpawnNoDirect ==
    /\ spawn.pc = "merged"
    /\ Len(spawnSourceFiles(spawn.cmdLine)) = 1
    /\ "CLCACHE_NODIRECT" \in DOMAIN spawn.environ
    /\ spawn' = [spawn EXCEPT !.pc = "spawned", !.childArgs = spawn.cmdLine,
                              !.childEnv = invokeRealCompilerEnvironment(
                                               spawn.environment, spawn.environ)]
    /\ UNCHANGED <<cacheVars, jobs, parse, tokenizer, mfile, mentry, build>>

\* reinvokePerSourceFile and runJobs: a child clcache is started for one of
\* the source files with the remaining environment as its os.environ; the
\* child then merges and compiles as any clcache process does
SpawnFanoutChild(sourceFile) ==
    /\ spawn.pc = "merged"
    /\ spawn.level < MaxSpawnLevel
    /\ Len(spawnSourceFiles(spawn.cmdLine)) > 1
    /\ \E i \in DOMAIN spawn.cmdLine : spawn.cmdLine[i] = sourceFile
    /\ LET args == childCommandLine(spawn.cmdLine,
                                    spawnSourceFiles(spawn.cmdLine), sourceFile)
           ext == extentCommandLineFromEnvironment(args, spawn.environment)
       IN  spawn' = [spawn EXCEPT !.level = spawn.level + 1,
                                  !.environ = spawn.environment,
                                  !.cmdLine = ext.cmdLine,
                                  !.environment = ext.environment]
    /\ UNCHANGED <<cacheVars, jobs, parse, tokenizer, mfile, mentry, build>>

InitEnv == InitWith({SmallCacheSize})

NextEnv ==
    \/ \E args \in SpawnArgs, environ \in Environs : StartClcache(args, environ)
    \/ SpawnDirect
    \/ SpawnNoDirect
    \/ \E sourceFile \in {"a.c", "b.c"} : SpawnFanoutChild(sourceFile)

SpecEnv == InitEnv /\ [][NextEnv]_vars

\* C39: whenever the contents of CL and _CL_ have been merged into the
\* command line handed to the real compiler, the compiler is started with an
\* environment that holds neither CL nor _CL_, in direct mode, in no-direct
\* mode and in fan-out children.
C39_CompilerEnvironmentWithoutCL ==
    (spawn.pc = "spawned" /\ spawn.merged)
    => DOMAIN spawn.childEnv \cap {"CL", "_CL_"} = {}

-----------------------------------------------------------------------------
\* How the files of the cache are written: a writer that can be killed at
\* any step, and a reader that comes afterwards.

\* the files a request writes
WrittenFiles == {"manifest", "dict", "object", "output"}

\* complete contents of each file; a cache entry directory is new when
\* setEntry fills it, a manifest or dictionary file may exist before
CompleteContents(file) ==
    CASE file = "manifest" ->
           {setManifest(entries) :
               entries \in {<<>>, <<ManifestEntry(<<"a.h">>, "h1", "k1")>>,
                            <<ManifestEntry(<<"a.h">>, "h2", "k2"),
                              ManifestEntry(<<"a.h">>, "h1", "k1")>>}}
      [] file = "dict" -> {json_dump(dict) : dict \in FileDicts}
      [] OTHER -> {[kind |-> "data", doc |-> "v1"], [kind |-> "data", doc |-> "v2"]}

\* what can be on disk before the write
PreviousContents(file) ==
    IF file \in {"manifest", "dict"}
    THEN CompleteContents(file) \cup {[kind |-> "absent"]}
    ELSE {[kind |-> "absent"]}

\* copyOrLink writes dstFilePath + '.tmp' and renames it; setManifest,
\* PersistentJSONDict.save and _setCachedCompilerConsoleOutput open the
\* target itself
WritesTemporary(file) == file = "object"

\* the writer starts: the file as found and the content to write
BeginWrite(file, previous, new) ==
    /\ mfile.pc = "idle"
    /\ mfile' = [mfile EXCEPT !.pc = "begun", !.file = file,
                              !.previous = previous, !.content = previous,
                              !.new = new]
    /\ UNCHANGED <<cacheVars, jobs, parse, tokenizer, mentry, build, spawn>>

\* open(path, 'w') or copyfile: the file written to is created or cut to
\* length zero
OpenForWrite ==
    /\ mfile.pc = "begun"
    /\ mfile' = IF WritesTemporary(mfile.file)
                THEN [mfile EXCEPT !.pc = "opened", !.tmp = [kind |-> "empty"]]
                ELSE [mfile EXCEPT !.pc = "opened", !.content = [kind |-> "empty"]]
    /\ UNCHANGED <<cacheVars, jobs, parse, tokenizer, mentry, build, spawn>>

\* a first part of the text has reached the file
WritePart ==
    /\ mfile.pc = "opened"
    /\ mfile' = IF WritesTemporary(mfile.file)
                THEN [mfile EXCEPT !.pc = "partial", !.tmp = [kind |-> "malformed"]]
                ELSE [mfile EXCEPT !.pc = "partial", !.content = [kind |-> "malformed"]]
    /\ UNCHANGED <<cacheVars, jobs, parse, tokenizer, mentry, build, spawn>>

\* the rest is written and the file is closed
CloseWritten ==
    /\ mfile.pc = "partial"
    /\ mfile' = IF WritesTemporary(mfile.file)
                THEN [mfile EXCEPT !.pc = "closed", !.tmp = mfile.new]
                ELSE [mfile EXCEPT !.pc = "finished", !.content = mfile.new]
    /\ UNCHANGED <<cacheVars, jobs, parse, tokenizer, mentry, build, spawn>>

\* copyOrLink: os.rename(tempDst, dstFilePath)
RenameTemporary ==
    /\ mfile.pc = "closed"
    /\ mfile' = [mfile EXCEPT !.pc = "finished", !.content = mfile.tmp,
                              !.tmp = [kind |-> "absent"]]
    /\ UNCHANGED <<cacheVars, jobs, parse, tokenizer, mentry, build, spawn>>

\* the writing process is killed; its files stay as they are
KillWriter ==
    /\ mfile.pc \in {"begun", "opened", "partial", "closed"}
    /\ mfile' = [mfile EXCEPT !.pc = "killed"]
    /\ UNCHANGED <<cacheVars, jobs, parse, tokenizer, mentry, build, spawn>>

\* a later process reads the file
ReadWritten ==
    /\ mfile.pc \in {"finished", "killed"}
    /\ mfile' = [mfile EXCEPT !.pc = "observed", !.seen = mfile.content]
    /\ UNCHANGED <<cacheVars, jobs, parse, tokenizer, mentry, build, spawn>>

InitWrite == InitWith({DefaultMaximumCacheSize})

NextWrite ==
    \/ \E file \in WrittenFiles :
          \E previous \in PreviousContents(file), new \in CompleteContents(file) :
             BeginWrite(file, previous, new)
    \/ OpenForWrite
    \/ WritePart
    \/ CloseWritten
    \/ RenameTemporary
    \/ KillWriter
    \/ ReadWritten

SpecWrite == InitWrite /\ [][NextWrite]_vars

\* C40: every manifest, statistics or configuration file and every object and
\* output file of an artifact is written to a temporary sibling and renamed,
\* so whoever reads after the writer finished or was killed sees the previous
\* content or the complete new content, never a partial file.
C40_ReaderNeverSeesPartialFile ==
    mfile.pc = "observed" => mfile.seen \in {mfile.previous, mfile.new}

====
